---- MODULE Spec2Model ----
(***************************************************************************)
(* Verification model of the stock-analysis repository.                    *)
(*                                                                         *)
(* Two programs live in the repository and both are modelled here:         *)
(*   - the FInMasterv2 orchestration script (orchestration/runner.py and   *)
(*     orchestration/core.py): one run for one symbol;                     *)
(*   - the stock_analysis application (main.py driving                     *)
(*     AnalysisOrchestrator over a list of symbols).                       *)
(* The variable `program` says which of the two is executing; the other    *)
(* program's variables keep their initial values.                          *)
(***************************************************************************)
EXTENDS Integers, Sequences, FiniteSets, TLC

VARIABLES
    program,          \* "finmaster" or "stock_analysis"
    \* ---- FInMasterv2 run (runner.py / core.py) ----
    pc,               \* stage of the run
    dataPoints,       \* analysis_result["metadata"]["dataPoints"] (0 before the fetch)
    modelIdx,         \* position of the model loop in `models` (1-based)
    modelResults,     \* analysis_result["modelResults"]: name -> result
    modelErrors,      \* analysis_result["modelErrors"]: name -> error text
    skippedAnalysis,  \* analysis_result["skippedAnalysis"]
    overallStatus,    \* analysis_result["overallStatus"]
    overallError,     \* analysis_result["overallError"]
    consensus,        \* analysis_result["consensus"]
    recommendations,  \* analysis_result["recommendations"] (the actions)
    raisedModels,     \* history: the models whose analyze raised in this run
    \* ---- stock_analysis batch (main.py / analysis_orchestrator.py) ----
    symbols,          \* number of symbols entered by the user
    symIdx,           \* position of main's for-loop (1-based)
    saPc,             \* position inside main / run_analysis
    saModelIdx,       \* position of run_analysis' model loop
    trading_recommendations, \* StockData.trading_recommendations of the current symbol
    saRaised,         \* history: the models whose analyze_stock raised for the current symbol
    analysed,         \* history: per symbol, what main printed for it
    \* ---- a function called on its own ----
    call,             \* history: the function last called and its arguments
    result            \* history: what that call returned

vars == <<program, pc, dataPoints, modelIdx, modelResults, modelErrors,
          skippedAnalysis, overallStatus, overallError, consensus,
          recommendations, raisedModels,
          symbols, symIdx, saPc, saModelIdx, trading_recommendations,
          saRaised, analysed, call, result>>

fmVars == <<pc, dataPoints, modelIdx, modelResults, modelErrors,
            skippedAnalysis, overallStatus, overallError, consensus,
            recommendations, raisedModels>>

saVars == <<symbols, symIdx, saPc, saModelIdx, trading_recommendations,
            saRaised, analysed>>

callVars == <<call, result>>

None == "None"

\* no function has been called on its own
NoCall == [fn |-> None]
NoResult == [signal |-> None]

\* ---------------------------------------------------------------------
\* Bounds of the model
\* ---------------------------------------------------------------------
\* largest number of bars the data fetch may return
MaxBars == 202
\* largest number of symbols the user may enter
MaxSymbols == 2

\* ---------------------------------------------------------------------
\* Small helpers
\* ---------------------------------------------------------------------
Max2(a, b) == IF a >= b THEN a ELSE b
Min2(a, b) == IF a <= b THEN a ELSE b

EmptyMap == [x \in {} |-> None]

\* d[k] = v, adding the key when absent (a Python dict assignment)
Put(d, k, v) == [x \in (DOMAIN d) \cup {k} |-> IF x = k THEN v ELSE d[x]]

\* ---------------------------------------------------------------------
\* FInMasterv2: the models of the run, in the order of the `models` list
\* ---------------------------------------------------------------------
RSIName  == "RSI Mean Reversion (14)"
MACDName == "MACD Momentum (12,26,9)"
BBName   == "Bollinger Bands (20, 2)"
MAName   == "MA Crossover (50/200)"

models == <<RSIName, MACDName, BBName, MAName>>

\* the "timeframe" of each model's result dictionaries
RSITimeframe  == "Short to Medium-term (2-8 weeks)"
MACDTimeframe == "Medium-term (1-3 months)"
BBTimeframe   == "Short to Medium-term (2-6 weeks)"
MATimeframe   == "Long-term (3-12 months)"

ModelTimeframe(m) ==
    CASE m = RSIName  -> RSITimeframe
      [] m = MACDName -> MACDTimeframe
      [] m = BBName   -> BBTimeframe
      [] m = MAName   -> MATimeframe

\* minimum bar counts of the indicators marked required (is_required = True)
SMA200MinPeriods == 200
RSI14MinPeriods == 14
MACDMinPeriods == 26 + 9 - 1
BBMinPeriods == 20
ATR14MinPeriods == 14

RequiredMinPeriods ==
    {SMA200MinPeriods, RSI14MinPeriods, MACDMinPeriods, BBMinPeriods, ATR14MinPeriods}

\* calculate_all_indicators raises IndicatorCalculationError at the first
\* required indicator whose minimum the bar count does not reach
IndicatorsSufficient(n) == \A p \in RequiredMinPeriods : n >= p

\* ---------------------------------------------------------------------
\* FInMasterv2: what a model's analyze hands back to the orchestrator
\* ---------------------------------------------------------------------
\* a result dictionary without an "error" key
OkResult(m, sig) ==
    [kind |-> "ok", signal |-> sig, timeframe |-> ModelTimeframe(m), error |-> None]

\* a degraded result dictionary: signal HOLD, confidence 0 and an "error" text
ErrResult(m, text) ==
    [kind |-> "error", signal |-> "HOLD", timeframe |-> ModelTimeframe(m), error |-> text]

\* analyze did not return: an exception left it
Raised(m) ==
    [kind |-> "raise", signal |-> None, timeframe |-> None, error |-> None]

\* required_data_length of each model, with the default periods
RSIRequiredDataLength  == 14 + 1
\* faulty variant: the shorter of the two EMA periods sets the minimum
MACDRequiredDataLength_fast == Min2(26, 12) + 9 - 1
MACDRequiredDataLength == Max2(26, 12) + 9 - 1
BBRequiredDataLength   == 20
MARequiredDataLength   == Max2(50, 200)

required_data_length(m) ==
    CASE m = RSIName  -> RSIRequiredDataLength
      [] m = MACDName -> MACDRequiredDataLength
      [] m = BBName   -> BBRequiredDataLength
      [] m = MAName   -> MARequiredDataLength

\* a missing (NaN) value of a numeric series
NaN == 0 - 1

\* the values a moving average or the price takes in the model: the rule
\* cascade only compares them two by two, and two numbers give every order
MAVals == {NaN, 1, 2}

\* the rule cascade of MovingAverageCrossoverModel.analyze
MASignal(current_fast, current_slow, prev_fast, prev_slow, current_price) ==
    IF current_fast # NaN /\ current_slow # NaN
    THEN IF prev_fast # NaN /\ prev_slow # NaN
         THEN IF current_fast > current_slow /\ prev_fast <= prev_slow THEN "BUY"
              ELSE IF current_fast < current_slow /\ prev_fast >= prev_slow THEN "SELL"
              ELSE IF current_fast > current_slow
                   THEN (IF current_price # NaN /\ current_price > current_fast
                         THEN "BUY" ELSE "WAIT")
              ELSE IF current_fast < current_slow
                   THEN (IF current_price # NaN /\ current_price < current_fast
                         THEN "SELL" ELSE "WAIT")
              ELSE "HOLD"
         ELSE IF current_fast > current_slow
              THEN (IF current_price # NaN /\ current_price > current_fast
                    THEN "BUY" ELSE "WAIT")
         ELSE IF current_fast < current_slow
              THEN (IF current_price # NaN /\ current_price < current_fast
                    THEN "SELL" ELSE "WAIT")
         ELSE "HOLD"
    ELSE "HOLD"

\* MovingAverageCrossoverModel.analyze. valid_fast / valid_slow are
\* len(series.dropna()) of the two moving averages, counted up to 2.
MAAnalyze(n, valid_fast, valid_slow, current_fast, current_slow, prev_fast, prev_slow, current_price) ==
    IF n < required_data_length(MAName)
    THEN ErrResult(MAName, "Insufficient data points")
    ELSE IF valid_fast < 2 \/ valid_slow < 2
    THEN ErrResult(MAName, "Insufficient recent calculated moving averages")
    ELSE OkResult(MAName,
                  MASignal(current_fast, current_slow, prev_fast, prev_slow, current_price))

\* The moving-average inputs a series can give: vf / vs valid values of the
\* fast / slow average, and a current or previous value that is present is
\* one of the valid values.
MAInputsAll ==
    {i \in [vf : 0..2, vs : 0..2, cf : MAVals, cs : MAVals,
            pf : MAVals, ps : MAVals, price : MAVals] :
        /\ (IF i.cf # NaN THEN 1 ELSE 0) + (IF i.pf # NaN THEN 1 ELSE 0) <= i.vf
        /\ (IF i.cs # NaN THEN 1 ELSE 0) + (IF i.ps # NaN THEN 1 ELSE 0) <= i.vs}

\* the inputs a series of n bars can give: SMA(p) has at most n - p + 1
\* valid values
MAInputs(n) ==
    {i \in MAInputsAll : i.vf <= Max2(0, n - 50 + 1) /\ i.vs <= Max2(0, n - 200 + 1)}

\* the signals the rule cascade of the other three models ends with
ModelSignals == {"BUY", "SELL", "HOLD"}

\* RSIMeanReversionModel / MACDMomentumModel / BollingerBandsModel .analyze:
\* the bar-count precondition, the valid-tail precondition, then the cascade
\* (tail_valid: the indicator series hold enough non-missing values;
\*  sig: the signal the rule cascade accumulates)
Analyze(m, n, tail_valid, sig) ==
    IF n < required_data_length(m)
    THEN ErrResult(m, "Insufficient data points")
    ELSE IF ~tail_valid
    THEN ErrResult(m, "Insufficient recent indicator data")
    ELSE OkResult(m, sig)

\* every way model m's analyze can end on a series of n bars
AnalyzeOutcomes(m, n) ==
    {Raised(m)} \cup
    (IF m = MAName
     THEN {MAAnalyze(n, i.vf, i.vs, i.cf, i.cs, i.pf, i.ps, i.price) : i \in MAInputs(n)}
     ELSE {Analyze(m, n, tv, sig) : tv \in BOOLEAN, sig \in ModelSignals})

\* ---------------------------------------------------------------------
\* FInMasterv2: the consensus step of core.py
\* ---------------------------------------------------------------------
\* list(model_signals.values()).count(sig)
SignalCount(results, sig) ==
    Cardinality({m \in DOMAIN results : results[m].signal = sig})

\* int((k / total) * 100); for the totals a run can have (at most the four
\* models) the float product truncates to the integer quotient
IntPct(k, total) == (k * 100) \div total

\* faulty variant: BUY and SELL must beat the HOLD votes strictly
consensus_signal_strict(buy_count, sell_count, hold_count, total) ==
    IF total > 0
    THEN IF buy_count > sell_count /\ buy_count > hold_count THEN "BUY"
         ELSE IF sell_count > buy_count /\ sell_count > hold_count THEN "SELL"
         ELSE "HOLD"
    ELSE "N/A"

\* faulty variant: the branch for no successful model is missing, the initial
\* consensus_signal = "HOLD" stays
consensus_signal_no_else(buy_count, sell_count, hold_count, total) ==
    IF total > 0
    THEN IF buy_count > sell_count /\ buy_count >= hold_count THEN "BUY"
         ELSE IF sell_count > buy_count /\ sell_count >= hold_count THEN "SELL"
         ELSE "HOLD"
    ELSE "HOLD"

consensus_signal(buy_count, sell_count, hold_count, total) ==
    IF total > 0
    THEN IF buy_count > sell_count /\ buy_count >= hold_count THEN "BUY"
         ELSE IF sell_count > buy_count /\ sell_count >= hold_count THEN "SELL"
         ELSE "HOLD"
    ELSE "N/A"

\* round(k / total * 100), to the nearest integer
RoundPct(k, total) == (2 * k * 100 + total) \div (2 * total)

\* faulty variant: the percentages are rounded instead of truncated
consensus_confidence_rounded(buy_count, sell_count, hold_count, total) ==
    IF total > 0
    THEN IF buy_count > sell_count /\ buy_count >= hold_count
         THEN RoundPct(buy_count, total)
         ELSE IF sell_count > buy_count /\ sell_count >= hold_count
         THEN RoundPct(sell_count, total)
         ELSE Max2(RoundPct(hold_count, total),
                   RoundPct(Max2(buy_count, sell_count) - Min2(buy_count, sell_count), total))
    ELSE 0

consensus_confidence(buy_count, sell_count, hold_count, total) ==
    IF total > 0
    THEN IF buy_count > sell_count /\ buy_count >= hold_count
         THEN IntPct(buy_count, total)
         ELSE IF sell_count > buy_count /\ sell_count >= hold_count
         THEN IntPct(sell_count, total)
         ELSE Max2(IntPct(hold_count, total),
                   IntPct(Max2(buy_count, sell_count) - Min2(buy_count, sell_count), total))
    ELSE 0

agreement(buy_count, sell_count, hold_count, total) ==
    LET conf == consensus_confidence(buy_count, sell_count, hold_count, total) IN
    IF total > 0
    THEN IF buy_count > sell_count /\ buy_count >= hold_count
         THEN (IF conf > 75 THEN "Strong Bullish"
               ELSE IF conf > 50 THEN "Bullish" ELSE "Slightly Bullish")
         ELSE IF sell_count > buy_count /\ sell_count >= hold_count
         THEN (IF conf > 75 THEN "Strong Bearish"
               ELSE IF conf > 50 THEN "Bearish" ELSE "Slightly Bearish")
         ELSE IF buy_count > sell_count THEN "Slightly Bullish (Mixed)"
         ELSE IF sell_count > buy_count THEN "Slightly Bearish (Mixed)"
         ELSE "Mixed"
    ELSE "No Models Run"

\* Counter(model_timeframes).most_common(1): the label with the highest count,
\* the first one met among equals; model_timeframes lists the results in the
\* order in which modelResults was filled (`order`)
TimeframeCount(results, tf) ==
    Cardinality({m \in DOMAIN results : results[m].timeframe = tf})

most_common_timeframe_in(order, results) ==
    LET inOrder == SelectSeq(order, LAMBDA m : m \in DOMAIN results)
        best == CHOOSE i \in 1..Len(inOrder) :
                  /\ \A j \in 1..Len(inOrder) :
                        TimeframeCount(results, results[inOrder[j]].timeframe)
                          <= TimeframeCount(results, results[inOrder[i]].timeframe)
                  /\ \A j \in 1..(i - 1) :
                        TimeframeCount(results, results[inOrder[j]].timeframe)
                          < TimeframeCount(results, results[inOrder[i]].timeframe)
    IN results[inOrder[best]].timeframe

\* modelResults is filled by the model loop, in the order of `models`
most_common_timeframe(results) == most_common_timeframe_in(models, results)

\* the consolidated timeframe: <<label, dominant in mixed>>
consensus_timeframe(results) ==
    IF Cardinality(DOMAIN results) > 0
    THEN <<most_common_timeframe(results),
           Cardinality({results[m].timeframe : m \in DOMAIN results}) > 1>>
    ELSE <<"N/A", FALSE>>

reasoning_list(results) ==
    LET total == Cardinality(DOMAIN results) IN
    IF total > 0
    THEN <<[text |-> "models bullish / bearish / hold",
            buy |-> SignalCount(results, "BUY"),
            sell |-> SignalCount(results, "SELL"),
            hold |-> SignalCount(results, "HOLD"),
            total |-> total],
           [text |-> "Contributing timeframes",
            buy |-> 0, sell |-> 0, hold |-> 0, total |-> 0]>>
    ELSE <<[text |-> "No trading models ran successfully to form a consensus.",
            buy |-> 0, sell |-> 0, hold |-> 0, total |-> 0]>>

\* the dictionary stored in analysis_result["consensus"]
ConsensusOf(results, errors) ==
    LET buy_count == SignalCount(results, "BUY")
        sell_count == SignalCount(results, "SELL")
        hold_count == SignalCount(results, "HOLD")
        wait_count == SignalCount(results, "WAIT")
        total_analyzed_models == Cardinality(DOMAIN results)
    IN [signal |-> consensus_signal(buy_count, sell_count, hold_count, total_analyzed_models),
        confidence |-> consensus_confidence(buy_count, sell_count, hold_count,
                                            total_analyzed_models),
        agreement |-> agreement(buy_count, sell_count, hold_count, total_analyzed_models),
        signalDistribution |-> [BUY |-> buy_count, SELL |-> sell_count,
                                HOLD |-> hold_count, WAIT |-> wait_count,
                                ERR |-> Cardinality(DOMAIN errors)],
        reasoning |-> reasoning_list(results),
        timeframe |-> consensus_timeframe(results),
        modelCount |-> total_analyzed_models,
        totalModelAttempted |-> Len(models)]

\* the first entry of analysis_result["recommendations"]
RecommendationAction(sig) ==
    IF sig \in {"BUY", "SELL", "HOLD"} THEN sig ELSE "UNKNOWN"

\* ---------------------------------------------------------------------
\* FInMasterv2: one iteration of the model loop of core.py
\* ---------------------------------------------------------------------
\* faulty variant: the result is stored even when the model reported an error
ResultsAfterModel_always(results, m, out) ==
    IF out.kind # "raise"
    THEN Put(results, m, [signal |-> out.signal, timeframe |-> out.timeframe])
    ELSE results

\* analysis_result["modelResults"] after model m ended with `out`
ResultsAfterModel(results, m, out) ==
    IF out.kind = "ok"
    THEN Put(results, m, [signal |-> out.signal, timeframe |-> out.timeframe])
    ELSE results

\* analysis_result["modelErrors"] after model m ended with `out`
ErrorsAfterModel(errors, m, out) ==
    IF out.kind = "error" THEN Put(errors, m, out.error)
    ELSE IF out.kind = "raise" THEN Put(errors, m, "Unexpected error during analysis")
    ELSE errors

\* faulty variant: a model's exception is treated as a hard failure of the run
StatusAfterModel_failure(status, out) ==
    IF out.kind = "raise" THEN "failure" ELSE status

\* analysis_result["overallStatus"] after a model ended with `out`
StatusAfterModel(status, out) ==
    IF out.kind = "raise" THEN "partial_success" ELSE status

\* the loop goes on with the next model whatever the outcome
NextModelIdx(i, out) == i + 1

\* ---------------------------------------------------------------------
\* FInMasterv2: the steps of a run. Each stage names the step in progress:
\*   fetching            step 1, get_stock_data
\*   indicators_computed step 2, IndicatorCalculator.calculate_all_indicators
\*   models_running      step 3, the model loop
\*   consensus_computed  step 4 done as far as the consensus; the rest of the
\*                       try block (risk, key levels, recommendations) pending
\*   done / aborted      the try block was left normally / by an except handler
\* ---------------------------------------------------------------------
FetchErrors == {"InvalidSymbolError", "StockDataFetchError"}

FetchOk ==
    /\ program = "finmaster"
    /\ pc = "fetching"
    /\ \E n \in 1..MaxBars : dataPoints' = n
    /\ pc' = "indicators_computed"
    /\ UNCHANGED <<program, modelIdx, modelResults, modelErrors, skippedAnalysis,
                   overallStatus, overallError, consensus, recommendations,
                   raisedModels>>
    /\ UNCHANGED saVars
    /\ UNCHANGED callVars

FetchFail ==
    /\ program = "finmaster"
    /\ pc = "fetching"
    /\ \E e \in FetchErrors : overallError' = e
    /\ overallStatus' = "failure"
    /\ skippedAnalysis' = Append(skippedAnalysis, "Data Fetch Failed")
    /\ pc' = "aborted"
    /\ UNCHANGED <<program, dataPoints, modelIdx, modelResults, modelErrors,
                   consensus, recommendations, raisedModels>>
    /\ UNCHANGED saVars
    /\ UNCHANGED callVars

IndicatorsOk ==
    /\ program = "finmaster"
    /\ pc = "indicators_computed"
    /\ IndicatorsSufficient(dataPoints)
    /\ pc' = "models_running"
    /\ UNCHANGED <<program, dataPoints, modelIdx, modelResults, modelErrors,
                   skippedAnalysis, overallStatus, overallError, consensus,
                   recommendations, raisedModels>>
    /\ UNCHANGED saVars
    /\ UNCHANGED callVars

IndicatorsFail ==
    /\ program = "finmaster"
    /\ pc = "indicators_computed"
    /\ ~IndicatorsSufficient(dataPoints)
    /\ overallStatus' = "failure"
    /\ overallError' = "IndicatorCalculationError"
    /\ skippedAnalysis' = Append(skippedAnalysis, "Indicator Calculation Failed")
    /\ pc' = "aborted"
    /\ UNCHANGED <<program, dataPoints, modelIdx, modelResults, modelErrors,
                   consensus, recommendations, raisedModels>>
    /\ UNCHANGED saVars
    /\ UNCHANGED callVars

RunModel ==
    /\ program = "finmaster"
    /\ pc = "models_running"
    /\ modelIdx <= Len(models)
    /\ LET m == models[modelIdx] IN
       \E out \in AnalyzeOutcomes(m, dataPoints) :
          /\ modelResults' = ResultsAfterModel(modelResults, m, out)
          /\ modelErrors' = ErrorsAfterModel(modelErrors, m, out)
          /\ overallStatus' = StatusAfterModel(overallStatus, out)
          /\ skippedAnalysis' = IF out.kind = "ok" THEN skippedAnalysis
                                ELSE Append(skippedAnalysis, m)
          /\ raisedModels' = IF out.kind = "raise" THEN raisedModels \cup {m}
                             ELSE raisedModels
          /\ modelIdx' = NextModelIdx(modelIdx, out)
    /\ UNCHANGED <<program, pc, dataPoints, overallError, consensus, recommendations>>
    /\ UNCHANGED saVars
    /\ UNCHANGED callVars

Consensus ==
    /\ program = "finmaster"
    /\ pc = "models_running"
    /\ modelIdx > Len(models)
    /\ consensus' = ConsensusOf(modelResults, modelErrors)
    /\ pc' = "consensus_computed"
    /\ UNCHANGED <<program, dataPoints, modelIdx, modelResults, modelErrors,
                   skippedAnalysis, overallStatus, overallError, recommendations,
                   raisedModels>>
    /\ UNCHANGED saVars
    /\ UNCHANGED callVars

Finish ==
    /\ program = "finmaster"
    /\ pc = "consensus_computed"
    /\ recommendations' = <<RecommendationAction(consensus.signal),
                            "RISK FACTORS", "TIMEFRAME">>
    /\ pc' = "done"
    /\ UNCHANGED <<program, dataPoints, modelIdx, modelResults, modelErrors,
                   skippedAnalysis, overallStatus, overallError, consensus,
                   raisedModels>>
    /\ UNCHANGED saVars
    /\ UNCHANGED callVars

\* =====================================================================
\* stock_analysis: main.py and AnalysisOrchestrator
\* =====================================================================
\* self.models of AnalysisOrchestrator, by class name, in order
saModels == <<"MovingAverageCrossoverModel", "RsiMeanReversionModel",
              "MacdMomentumModel", "BollingerBandsModel">>

\* Confidences are kept in ten-thousandths (0.7 is 7000), the precision of
\* round(confidence, 4).
Rec(rec, conf, why) ==
    [kind |-> "ok", recommendation |-> rec, confidence |-> conf, reasoning |-> why]

saRaisedOutcome ==
    [kind |-> "raise", recommendation |-> None, confidence |-> 0, reasoning |-> None]

\* the dictionaries each model's analyze_stock returns: the degraded one
\* (insufficient data, missing or invalid indicator values), then the ones of
\* its rule cascade
MovingAverageCrossoverOutcomes ==
    {Rec("WAIT", 0, "insufficient data or indicator"),
     Rec("BUY", 7000, "model"), Rec("SELL", 7000, "model"),
     Rec("WAIT", 4000, "model"), Rec("WAIT", 5000, "model")}

RsiMeanReversionOutcomes ==
    {Rec("WAIT", 0, "insufficient data or indicator"),
     Rec("BUY", 7000, "model"), Rec("SELL", 7000, "model"),
     Rec("WAIT", 5000, "model")}

MacdMomentumOutcomes ==
    {Rec("WAIT", 0, "insufficient data or indicator"),
     Rec("BUY", 8000, "model"), Rec("BUY", 6000, "model"),
     Rec("SELL", 8000, "model"), Rec("SELL", 6000, "model"),
     Rec("WAIT", 6000, "model"), Rec("WAIT", 5000, "model")}

BollingerBandsOutcomes ==
    {Rec("WAIT", 0, "insufficient data or indicator"),
     Rec("BUY", 7000, "model"), Rec("SELL", 7000, "model"),
     Rec("WAIT", 6000, "model"), Rec("WAIT", 5000, "model"),
     Rec("WAIT", 4000, "model")}

\* every way model.analyze_stock(stock_data) can end in run_analysis: a
\* returned dictionary, or an exception
AnalyzeStockOutcomes(m) ==
    {saRaisedOutcome} \cup
    (CASE m = "MovingAverageCrossoverModel" -> MovingAverageCrossoverOutcomes
       [] m = "RsiMeanReversionModel" -> RsiMeanReversionOutcomes
       [] m = "MacdMomentumModel" -> MacdMomentumOutcomes
       [] m = "BollingerBandsModel" -> BollingerBandsOutcomes)

\* what run_analysis stores for model m: its recommendation, or the default
\* WAIT recommendation of the except branch
RecommendationAfter(out) ==
    IF out.kind = "raise"
    THEN [recommendation |-> "WAIT", confidence |-> 0,
          reasoning |-> "Model execution failed"]
    ELSE [recommendation |-> out.recommendation, confidence |-> out.confidence,
          reasoning |-> out.reasoning]

\* faulty variant: the except branch leaves the model loop
saNextModelIdx_break(i, out) ==
    IF out.kind = "raise" THEN Len(saModels) + 1 ELSE i + 1

\* the model loop of run_analysis goes on with the next model
saNextModelIdx(i, out) == i + 1

\* ---- get_consensus_recommendation ----
RECURSIVE SumConfidence(_, _)
SumConfidence(recs, names) ==
    IF names = {} THEN 0
    ELSE LET m == CHOOSE x \in names : TRUE
         IN recs[m].confidence + SumConfidence(recs, names \ {m})

\* faulty variant: the quotient is cut off after the fourth place
RoundDiv_floor(a, b) == a \div b

\* round(a / b, 4) in ten-thousandths (no quotient of the model is a tie)
RoundDiv(a, b) == (2 * a + b) \div (2 * b)

Max3(a, b, c) == Max2(a, Max2(b, c))

\* the recommendations that vote: every entry but 'Consensus'
model_recommendations(recs) == (DOMAIN recs) \ {"Consensus"}

ConsensusRecommendation(recs) ==
    LET voters == model_recommendations(recs)
        buys == {m \in voters : recs[m].recommendation = "BUY"}
        sells == {m \in voters : recs[m].recommendation = "SELL"}
        buy_count == Cardinality(buys)
        sell_count == Cardinality(sells)
        wait_count == Cardinality(voters \ (buys \cup sells))
        total_models == Cardinality(voters)
    IN IF total_models = 0
       THEN [recommendation |-> "WAIT", confidence |-> 0,
             reasoning |-> [text |-> "No model recommendations available.",
                            buy |-> 0, sell |-> 0, wait |-> 0, total |-> 0]]
       ELSE IF buy_count > sell_count /\ buy_count > wait_count
       THEN [recommendation |-> "BUY",
             confidence |-> RoundDiv(SumConfidence(recs, buys), buy_count),
             reasoning |-> [text |-> "Majority models recommend BUY.",
                            buy |-> buy_count, sell |-> sell_count,
                            wait |-> wait_count, total |-> total_models]]
       ELSE IF sell_count > buy_count /\ sell_count > wait_count
       THEN [recommendation |-> "SELL",
             confidence |-> RoundDiv(SumConfidence(recs, sells), sell_count),
             reasoning |-> [text |-> "Majority models recommend SELL.",
                            buy |-> buy_count, sell |-> sell_count,
                            wait |-> wait_count, total |-> total_models]]
       ELSE [recommendation |-> "WAIT",
             confidence |-> RoundDiv(10000 * Max3(buy_count, sell_count, wait_count),
                                     total_models),
             reasoning |-> [text |-> "Mixed signals. No clear majority.",
                            buy |-> buy_count, sell |-> sell_count,
                            wait |-> wait_count, total |-> total_models]]

\* ---- main's for-loop ----
\* faulty variant: main stops at the first symbol that could not be analysed
AfterRunAnalysis_halt(returned) ==
    IF returned = None THEN "finished" ELSE "loop"

\* where main goes after run_analysis returned for the current symbol:
\* the next iteration, whatever was returned
AfterRunAnalysis(returned) == "loop"

\* run_analysis has been invoked for the i-th symbol
Invoked(i) ==
    \/ symIdx > i
    \/ symIdx = i /\ saPc \in {"fetch", "models", "report"}

\* ---- the steps of main ----
\* main's for-loop takes the next symbol and calls run_analysis
MainNext ==
    /\ program = "stock_analysis"
    /\ saPc = "loop"
    /\ symIdx <= symbols
    /\ saPc' = "fetch"
    /\ UNCHANGED <<program, symbols, symIdx, saModelIdx, trading_recommendations,
                   saRaised, analysed>>
    /\ UNCHANGED fmVars
    /\ UNCHANGED callVars

\* the for-loop is exhausted
MainDone ==
    /\ program = "stock_analysis"
    /\ saPc = "loop"
    /\ symIdx > symbols
    /\ saPc' = "finished"
    /\ UNCHANGED <<program, symbols, symIdx, saModelIdx, trading_recommendations,
                   saRaised, analysed>>
    /\ UNCHANGED fmVars
    /\ UNCHANGED callVars

\* get_stock_data returned None: run_analysis returns None and main prints
\* "Could not analyze"
FetchNone ==
    /\ program = "stock_analysis"
    /\ saPc = "fetch"
    /\ analysed' = Append(analysed, "Could not analyze")
    /\ symIdx' = symIdx + 1
    /\ saPc' = AfterRunAnalysis(None)
    /\ UNCHANGED <<program, symbols, saModelIdx, trading_recommendations, saRaised>>
    /\ UNCHANGED fmVars
    /\ UNCHANGED callVars

\* get_stock_data returned a fresh StockData
FetchStockData ==
    /\ program = "stock_analysis"
    /\ saPc = "fetch"
    /\ trading_recommendations' = EmptyMap
    /\ saRaised' = {}
    /\ saModelIdx' = 1
    /\ saPc' = "models"
    /\ UNCHANGED <<program, symbols, symIdx, analysed>>
    /\ UNCHANGED fmVars
    /\ UNCHANGED callVars

\* one iteration of run_analysis' model loop
AnalyzeStock ==
    /\ program = "stock_analysis"
    /\ saPc = "models"
    /\ saModelIdx <= Len(saModels)
    /\ LET m == saModels[saModelIdx] IN
       \E out \in AnalyzeStockOutcomes(m) :
          /\ trading_recommendations' =
                Put(trading_recommendations, m, RecommendationAfter(out))
          /\ saRaised' = IF out.kind = "raise" THEN saRaised \cup {m} ELSE saRaised
          /\ saModelIdx' = saNextModelIdx(saModelIdx, out)
    /\ UNCHANGED <<program, symbols, symIdx, saPc, analysed>>
    /\ UNCHANGED fmVars
    /\ UNCHANGED callVars

\* the end of run_analysis: get_consensus_recommendation, return stock_data
GetConsensus ==
    /\ program = "stock_analysis"
    /\ saPc = "models"
    /\ saModelIdx > Len(saModels)
    /\ trading_recommendations' =
          Put(trading_recommendations, "Consensus",
              ConsensusRecommendation(trading_recommendations))
    /\ saPc' = "report"
    /\ UNCHANGED <<program, symbols, symIdx, saModelIdx, saRaised, analysed>>
    /\ UNCHANGED fmVars
    /\ UNCHANGED callVars

\* main prints the report of the returned StockData; the StockData is not
\* read again
Report ==
    /\ program = "stock_analysis"
    /\ saPc = "report"
    /\ analysed' = Append(analysed, "report")
    /\ symIdx' = symIdx + 1
    /\ saPc' = AfterRunAnalysis("stock_data")
    /\ trading_recommendations' = EmptyMap
    /\ saRaised' = {}
    /\ saModelIdx' = 1
    /\ UNCHANGED <<program, symbols>>
    /\ UNCHANGED fmVars
    /\ UNCHANGED callVars

\* =====================================================================
\* The specification
\* =====================================================================
\* consensus is None until the consensus step stores its dictionary
NoConsensus == [signal |-> None]

Init ==
    /\ program \in {"finmaster", "stock_analysis"}
    \* runner.py: the initial analysis_result
    /\ pc = "fetching"
    /\ dataPoints = 0
    /\ modelIdx = 1
    /\ modelResults = EmptyMap
    /\ modelErrors = EmptyMap
    /\ skippedAnalysis = <<>>
    /\ overallStatus = "success"
    /\ overallError = None
    /\ consensus = NoConsensus
    /\ recommendations = <<>>
    /\ raisedModels = {}
    \* main.py: a non-empty list of symbols was entered
    /\ symbols \in (IF program = "stock_analysis" THEN 1..MaxSymbols ELSE {0})
    /\ symIdx = 1
    /\ saPc = "loop"
    /\ saModelIdx = 1
    /\ trading_recommendations = EmptyMap
    /\ saRaised = {}
    /\ analysed = <<>>
    /\ call = NoCall
    /\ result = NoResult

Next ==
    \/ FetchOk
    \/ FetchFail
    \/ IndicatorsOk
    \/ IndicatorsFail
    \/ RunModel
    \/ Consensus
    \/ Finish
    \/ MainNext
    \/ MainDone
    \/ FetchNone
    \/ FetchStockData
    \/ AnalyzeStock
    \/ GetConsensus
    \/ Report

Spec == Init /\ [][Next]_vars

\* Both programs are sequential and keep executing until they end: a step
\* that can be taken is taken.
FairSpec == Spec /\ WF_vars(Next)

\* =====================================================================
\* Properties
\* =====================================================================
\* the consensus dictionary of the FInMasterv2 run has been stored
ConsensusStored == program = "finmaster" /\ pc \in {"consensus_computed", "done"}

\* the model loop of the FInMasterv2 run is over
LoopOver ==
    /\ program = "finmaster"
    /\ \/ pc = "models_running" /\ modelIdx > Len(models)
       \/ pc \in {"consensus_computed", "done"}

\* ---------------------------------------------------------------------
\* C1: with at least one successful model, the consensus signal is BUY
\* exactly when the BUY votes outnumber the SELL votes and are at least the
\* HOLD votes, SELL exactly when the SELL votes outnumber the BUY votes and
\* are at least the HOLD votes, and HOLD in every other case. The votes are
\* the signals of modelResults; the HOLD votes are the "HOLD" signals.
\* ---------------------------------------------------------------------
C1_SignalRule ==
    (ConsensusStored /\ Cardinality(DOMAIN modelResults) >= 1) =>
        LET buy == SignalCount(modelResults, "BUY")
            sell == SignalCount(modelResults, "SELL")
            hold == SignalCount(modelResults, "HOLD")
        IN /\ (consensus.signal = "BUY") <=> (buy > sell /\ buy >= hold)
           /\ (consensus.signal = "SELL") <=> (sell > buy /\ sell >= hold)
           /\ (consensus.signal = "HOLD") <=>
                 (~(buy > sell /\ buy >= hold) /\ ~(sell > buy /\ sell >= hold))

\* a BUY consensus won on a tie with the HOLD votes
C1_Witness ==
    /\ ConsensusStored
    /\ consensus.signal = "BUY"
    /\ SignalCount(modelResults, "BUY") = 2
    /\ SignalCount(modelResults, "HOLD") = 2

\* ---------------------------------------------------------------------
\* C2: every successful model recommendation is counted in exactly one of
\* BUY, SELL and HOLD (a WAIT counting as HOLD), so that the three counts
\* add up to the number of successful models.
\* ---------------------------------------------------------------------
C2_ThreeCountsCoverAll ==
    ConsensusStored =>
        consensus.signalDistribution.BUY + consensus.signalDistribution.SELL
          + consensus.signalDistribution.HOLD = consensus.modelCount

\* ---------------------------------------------------------------------
\* C3 (as stated): the confidence of a BUY (SELL) consensus is
\* round(buy / total * 100) (resp. sell), and the confidence of a HOLD
\* consensus is the larger of hold / total * 100 and
\* (dominant - subordinate) / total * 100.
\* ---------------------------------------------------------------------
C3_RoundedConfidence ==
    (ConsensusStored /\ consensus.modelCount >= 1) =>
        LET d == consensus.signalDistribution
            total == consensus.modelCount
            margin == Max2(d.BUY, d.SELL) - Min2(d.BUY, d.SELL)
        IN /\ consensus.signal = "BUY" => consensus.confidence = RoundPct(d.BUY, total)
           /\ consensus.signal = "SELL" => consensus.confidence = RoundPct(d.SELL, total)
           /\ consensus.signal = "HOLD" =>
                 consensus.confidence * total = 100 * Max2(d.HOLD, margin)

\* C3 (amended): the confidence of a BUY (SELL) consensus is the integer
\* part of buy / total * 100 (resp. sell), and the confidence of a HOLD
\* consensus is the integer part of the larger of hold / total * 100 and
\* (dominant - subordinate) / total * 100, hold being the "HOLD" signals.
C3_TruncatedConfidence ==
    (ConsensusStored /\ consensus.modelCount >= 1) =>
        LET d == consensus.signalDistribution
            total == consensus.modelCount
            margin == Max2(d.BUY, d.SELL) - Min2(d.BUY, d.SELL)
            IntegerPartOf(c, k) == c * total <= 100 * k /\ 100 * k < (c + 1) * total
        IN /\ consensus.signal = "BUY" => IntegerPartOf(consensus.confidence, d.BUY)
           /\ consensus.signal = "SELL" => IntegerPartOf(consensus.confidence, d.SELL)
           /\ consensus.signal = "HOLD" =>
                 IntegerPartOf(consensus.confidence, Max2(d.HOLD, margin))

\* two of three successful models say BUY: 66, where rounding gives 67
C3_Witness ==
    /\ ConsensusStored
    /\ consensus.signal = "BUY"
    /\ consensus.modelCount = 3
    /\ consensus.signalDistribution.BUY = 2
    /\ consensus.confidence = 66

\* ---------------------------------------------------------------------
\* C4: when no model ran successfully the consensus step still completes:
\* it stores a consensus object whose signal is "N/A", whose confidence is 0
\* and whose reasoning says that no models ran successfully.
\* ---------------------------------------------------------------------
C4_NoSuccessfulModel ==
    /\ (LoopOver /\ pc = "models_running" /\ DOMAIN modelResults = {}) => ENABLED Consensus
    /\ (ConsensusStored /\ DOMAIN modelResults = {}) =>
          /\ consensus # NoConsensus
          /\ consensus.signal = "N/A"
          /\ consensus.confidence = 0
          /\ consensus.modelCount = 0
          /\ Len(consensus.reasoning) = 1
          /\ consensus.reasoning[1].text =
                "No trading models ran successfully to form a consensus."
          /\ pc = "done" => overallStatus # "failure"

\* a finished run all of whose models failed
C4_Witness ==
    /\ program = "finmaster"
    /\ pc = "done"
    /\ DOMAIN modelResults = {}
    /\ Cardinality(DOMAIN modelErrors) = Len(models)

\* ---------------------------------------------------------------------
\* C5: after the model loop every attempted model is in exactly one of
\* modelResults and modelErrors; only the models of modelResults vote and
\* count toward the total, and modelCount + signalDistribution.ERR =
\* totalModelAttempted.
\* ---------------------------------------------------------------------
C5_ResultsOrErrors ==
    /\ LoopOver =>
          \A i \in 1..Len(models) :
             (models[i] \in DOMAIN modelResults) # (models[i] \in DOMAIN modelErrors)
    /\ ConsensusStored =>
          LET d == consensus.signalDistribution IN
          /\ consensus.modelCount = Cardinality(DOMAIN modelResults)
          /\ d.ERR = Cardinality(DOMAIN modelErrors)
          /\ d.BUY + d.SELL + d.HOLD + d.WAIT = consensus.modelCount
          /\ consensus.modelCount + d.ERR = consensus.totalModelAttempted
          /\ consensus.totalModelAttempted = Len(models)

\* a finished run with a model that reported an error, a model that raised
\* and two successful models
C5_Witness ==
    /\ program = "finmaster"
    /\ pc = "done"
    /\ Cardinality(DOMAIN modelResults) = 2
    /\ Cardinality(raisedModels) = 1
    /\ Cardinality(DOMAIN modelErrors) = 2

\* ---------------------------------------------------------------------
\* C6: in a run without hard failure, overallStatus is partial_success
\* exactly when at least one model failed (it threw, or it reported an error
\* result) while at least one other succeeded, and success exactly when no
\* model failed.
\* ---------------------------------------------------------------------
C6_StatusFollowsModelFailures ==
    (program = "finmaster" /\ pc = "done") =>
        /\ (overallStatus = "partial_success") <=>
              (DOMAIN modelErrors # {} /\ DOMAIN modelResults # {})
        /\ (overallStatus = "success") <=> (DOMAIN modelErrors = {})

\* ---------------------------------------------------------------------
\* C7: the run fails only out of fetching and indicators_computed; whenever
\* overallStatus is failure, modelResults and modelErrors are empty and
\* consensus is unset; and a run that reached models_running goes on
\* through consensus_computed to done.
\* ---------------------------------------------------------------------
C7_FailureOnlyBeforeModels ==
    /\ [](overallStatus = "failure" =>
            /\ pc = "aborted"
            /\ DOMAIN modelResults = {}
            /\ DOMAIN modelErrors = {}
            /\ consensus = NoConsensus)
    /\ [][pc' = "aborted" /\ pc # "aborted"
            => pc \in {"fetching", "indicators_computed"} /\ overallStatus' = "failure"]_vars
    /\ [][pc = "models_running" => pc' \in {"models_running", "consensus_computed"}]_vars
    /\ [][pc = "consensus_computed" => pc' \in {"consensus_computed", "done"}]_vars
    /\ [][pc = "done" => pc' = "done"]_vars
    /\ (pc = "models_running") ~> (pc = "consensus_computed")
    /\ (pc = "consensus_computed") ~> (pc = "done")

\* a run that failed in the indicator step
C7_Witness ==
    /\ program = "finmaster"
    /\ pc = "aborted"
    /\ overallStatus = "failure"
    /\ overallError = "IndicatorCalculationError"

\* ---------------------------------------------------------------------
\* C8: when a model raises, the orchestrator still runs every remaining
\* model and computes the consensus, and the model that raised is recorded
\* under its own name as an error entry: in modelErrors for FInMasterv2, as
\* the recommendation WAIT with confidence 0.0 and the reasoning
\* 'Model execution failed' for AnalysisOrchestrator.
\* ---------------------------------------------------------------------
C8_ModelFailureIsolated ==
    /\ raisedModels # {} => pc \in {"models_running", "consensus_computed", "done"}
    /\ \A m \in raisedModels :
          /\ m \in DOMAIN modelErrors
          /\ modelErrors[m] = "Unexpected error during analysis"
          /\ m \notin DOMAIN modelResults
    /\ ConsensusStored =>
          /\ \A i \in 1..Len(models) :
                models[i] \in (DOMAIN modelResults) \cup (DOMAIN modelErrors)
          /\ consensus # NoConsensus
    /\ (pc = "models_running" /\ raisedModels # {}) => ENABLED (RunModel \/ Consensus)
    /\ saRaised # {} => saPc \in {"models", "report"}
    /\ \A m \in saRaised :
          /\ m \in DOMAIN trading_recommendations
          /\ trading_recommendations[m].recommendation = "WAIT"
          /\ trading_recommendations[m].confidence = 0
          /\ trading_recommendations[m].reasoning = "Model execution failed"
    /\ (saPc = "models" /\ saRaised # {}) => ENABLED (AnalyzeStock \/ GetConsensus)
    /\ saPc = "report" =>
          /\ \A i \in 1..Len(saModels) : saModels[i] \in DOMAIN trading_recommendations
          /\ "Consensus" \in DOMAIN trading_recommendations

\* the first model of AnalysisOrchestrator raised and the run came to its
\* end with the other three models' recommendations
C8_Witness ==
    /\ saPc = "report"
    /\ saRaised = {saModels[1]}
    /\ \A i \in 2..Len(saModels) :
          trading_recommendations[saModels[i]].reasoning = "model"

\* ---------------------------------------------------------------------
\* C9: in AnalysisOrchestrator a model whose analyze_stock raised takes no
\* part in the consensus vote: the consensus is the one of the models that
\* returned, and total_models counts only them.
\* ---------------------------------------------------------------------
C9_RaisedModelDoesNotVote ==
    (program = "stock_analysis" /\ saPc = "report") =>
        LET returned == (DOMAIN trading_recommendations) \ (saRaised \cup {"Consensus"})
            theirs == [m \in returned |-> trading_recommendations[m]]
        IN trading_recommendations["Consensus"] = ConsensusRecommendation(theirs)

\* ---------------------------------------------------------------------
\* C10: in a batch, run_analysis is eventually invoked for every symbol of
\* the list, whatever happened to the symbols before it.
\* ---------------------------------------------------------------------
C10_EverySymbolAnalysed ==
    \A i \in 1..MaxSymbols : (program = "stock_analysis" /\ i <= symbols) ~> Invoked(i)

\* the first symbol could not be analysed and run_analysis runs for the second
C10_Witness ==
    /\ program = "stock_analysis"
    /\ symbols >= 2
    /\ symIdx = 2
    /\ saPc = "fetch"
    /\ analysed = <<"Could not analyze">>

\* ---------------------------------------------------------------------
\* C11: the consensus of a run (signal, confidence, agreement, vote counts,
\* dominant timeframe) depends on the set of successful model results only:
\* had the same models run or completed in any other order, the consensus
\* would be the same.
\* ---------------------------------------------------------------------
\* every order in which the four models can be listed
ModelOrders ==
    {o \in [1..Len(models) -> {models[i] : i \in 1..Len(models)}] :
        \A i, j \in 1..Len(models) : i # j => o[i] # o[j]}

\* the consensus dictionary when modelResults was filled in the order `order`
ConsensusInOrder(order, results, errors) ==
    [ConsensusOf(results, errors) EXCEPT
        !.timeframe = IF Cardinality(DOMAIN results) > 0
                      THEN <<most_common_timeframe_in(order, results),
                             Cardinality({results[m].timeframe : m \in DOMAIN results}) > 1>>
                      ELSE <<"N/A", FALSE>>]

C11_OrderIndependent ==
    ConsensusStored =>
        \A order \in ModelOrders :
            ConsensusInOrder(order, modelResults, modelErrors) = consensus

\* =====================================================================
\* A StockData object used on its own: any sequence of
\* add_trading_recommendation and get_consensus_recommendation calls
\* (stock_analysis/data_structures, stock_analysis/analysis_orchestration)
\* =====================================================================
\* the model names of the callers, as in the orchestrator's tests
sdNames == {"ModelA", "ModelB", "ModelC"}

\* the recommendations the callers add
sdRecommendations ==
    {Rec("BUY", 8000, "model"), Rec("BUY", 7000, "model"),
     Rec("SELL", 7000, "model"), Rec("WAIT", 5000, "model")}

\* StockData.add_trading_recommendation(model_name, recommendation)
AddTradingRecommendation ==
    /\ program = "stock_data"
    /\ \E model_name \in sdNames, recommendation \in sdRecommendations :
          trading_recommendations' =
              Put(trading_recommendations, model_name, recommendation)
    /\ UNCHANGED <<program, symbols, symIdx, saPc, saModelIdx, saRaised, analysed>>
    /\ UNCHANGED fmVars
    /\ UNCHANGED callVars

\* AnalysisOrchestrator.get_consensus_recommendation(stock_data); call keeps
\* the model recommendations it read, result the entry it stored
GetConsensusRecommendation ==
    /\ program = "stock_data"
    /\ call' = [fn |-> "get_consensus_recommendation",
                model_recommendations |->
                    [m \in model_recommendations(trading_recommendations) |->
                        trading_recommendations[m]]]
    /\ result' = ConsensusRecommendation(trading_recommendations)
    /\ trading_recommendations' =
          Put(trading_recommendations, "Consensus", result')
    /\ UNCHANGED <<program, symbols, symIdx, saPc, saModelIdx, saRaised, analysed>>
    /\ UNCHANGED fmVars

\* a StockData as its constructor leaves it: no recommendation yet
StockDataInit ==
    /\ program = "stock_data"
    /\ pc = "fetching"
    /\ dataPoints = 0
    /\ modelIdx = 1
    /\ modelResults = EmptyMap
    /\ modelErrors = EmptyMap
    /\ skippedAnalysis = <<>>
    /\ overallStatus = "success"
    /\ overallError = None
    /\ consensus = NoConsensus
    /\ recommendations = <<>>
    /\ raisedModels = {}
    /\ symbols = 0
    /\ symIdx = 1
    /\ saPc = "loop"
    /\ saModelIdx = 1
    /\ trading_recommendations = EmptyMap
    /\ saRaised = {}
    /\ analysed = <<>>
    /\ call = NoCall
    /\ result = NoResult

StockDataNext ==
    \/ AddTradingRecommendation
    \/ GetConsensusRecommendation

StockDataSpec == StockDataInit /\ [][StockDataNext]_vars

\* ---------------------------------------------------------------------
\* C12: on a StockData that holds a 'Consensus' entry, after any sequence of
\* add_trading_recommendation and get_consensus_recommendation calls the
\* stored 'Consensus' is the consensus of the current model
\* recommendations.
\* ---------------------------------------------------------------------
C12_ConsensusIsCurrent ==
    "Consensus" \in DOMAIN trading_recommendations =>
        trading_recommendations["Consensus"] =
            ConsensusRecommendation(trading_recommendations)

\* ---------------------------------------------------------------------
\* C13: get_consensus_recommendation yields BUY exactly when buy_count is
\* greater than both sell_count and wait_count, with the mean confidence of
\* the BUY recommendations rounded to 4 places; SELL symmetrically; otherwise
\* WAIT with confidence max(buy_count, sell_count, wait_count) /
\* total_models; and WAIT with confidence 0.0 without model recommendations.
\* ---------------------------------------------------------------------
\* the names among recs that recommend rec
Recommending(recs, rec) == {m \in DOMAIN recs : recs[m].recommendation = rec}

\* c (in ten-thousandths) is a / b rounded to 4 places
IsRounded(c, a, b) == 2 * c * b - 2 * a <= b /\ 2 * a - 2 * c * b <= b

\* the recommendation and the BUY/SELL confidence of the last call follow
\* the rule of the claim
C13_MajorityRule ==
    LET recs == call.model_recommendations
        buy_count == Cardinality(Recommending(recs, "BUY"))
        sell_count == Cardinality(Recommending(recs, "SELL"))
        total_models == Cardinality(DOMAIN recs)
        wait_count == total_models - buy_count - sell_count
        buy == buy_count > sell_count /\ buy_count > wait_count
        sell == sell_count > buy_count /\ sell_count > wait_count
    IN /\ result.recommendation \in {"BUY", "SELL", "WAIT"}
       /\ result.recommendation = "BUY" <=> buy
       /\ result.recommendation = "SELL" <=> sell
       /\ buy => IsRounded(result.confidence,
                           SumConfidence(recs, Recommending(recs, "BUY")), buy_count)
       /\ sell => IsRounded(result.confidence,
                            SumConfidence(recs, Recommending(recs, "SELL")), sell_count)
       /\ total_models = 0 => result.confidence = 0

\* the largest of the three counts of the last call
LargestCount ==
    LET recs == call.model_recommendations
        buy_count == Cardinality(Recommending(recs, "BUY"))
        sell_count == Cardinality(Recommending(recs, "SELL"))
    IN Max3(buy_count, sell_count, Cardinality(DOMAIN recs) - buy_count - sell_count)

\* C13 as stated: a WAIT consensus over some model recommendations has
\* confidence max(buy_count, sell_count, wait_count) / total_models
C13_AsStated ==
    call.fn = "get_consensus_recommendation" =>
        /\ C13_MajorityRule
        /\ (result.recommendation = "WAIT" /\ DOMAIN call.model_recommendations # {}) =>
              result.confidence * Cardinality(DOMAIN call.model_recommendations) =
                  10000 * LargestCount

\* C13 amended: the WAIT confidence is that quotient rounded to 4 places,
\* like the BUY and SELL confidences
C13_RoundedEverywhere ==
    call.fn = "get_consensus_recommendation" =>
        /\ C13_MajorityRule
        /\ (result.recommendation = "WAIT" /\ DOMAIN call.model_recommendations # {}) =>
              IsRounded(result.confidence, 10000 * LargestCount,
                        Cardinality(DOMAIN call.model_recommendations))

\* two of three models recommend WAIT and the stored confidence is 0.6667
C13_Witness ==
    /\ call.fn = "get_consensus_recommendation"
    /\ Cardinality(DOMAIN call.model_recommendations) = 3
    /\ Cardinality(Recommending(call.model_recommendations, "WAIT")) = 2
    /\ result.recommendation = "WAIT"
    /\ result.confidence = 6667

\* =====================================================================
\* The signal models called on their own: one call of analyze,
\* analyze_stock or find_crossovers on a StockData the caller built
\* (FInMasterv2/src/models, stock_analysis/trading_models)
\* =====================================================================
\* the result dictionary of a FInMasterv2 model: its signal, its confidence
\* and its "error" text (None without an "error" key)
ModelResult(sig, conf, err) == [signal |-> sig, confidence |-> conf, error |-> err]

\* the degraded result of the four models: HOLD, confidence 0, an "error"
Degraded(err) == ModelResult("HOLD", 0, err)

\* faulty variant: the confidence is returned as accumulated
Clamp_none(confidence) == confidence

\* confidence = max(0, min(confidence, 100)), the statement that ends the
\* rule cascade of each of the four models
Clamp(confidence) == Max2(0, Min2(confidence, 100))

\* ---- MovingAverageCrossoverModel.analyze ----
\* the confidence the rule cascade starts from
MABaseConfidence(current_fast, current_slow, prev_fast, prev_slow) ==
    IF current_fast # NaN /\ current_slow # NaN
    THEN IF prev_fast # NaN /\ prev_slow # NaN
         THEN IF current_fast > current_slow /\ prev_fast <= prev_slow THEN 85
              ELSE IF current_fast < current_slow /\ prev_fast >= prev_slow THEN 85
              ELSE IF current_fast > current_slow THEN 60
              ELSE IF current_fast < current_slow THEN 60
              ELSE 20
         ELSE IF current_fast > current_slow THEN 50
         ELSE IF current_fast < current_slow THEN 50
         ELSE 20
    ELSE 10

\* faulty variant: a separation on a threshold already earns the bonus
MASeparationBonus_inclusive(current_fast, current_slow) ==
    IF current_slow # NaN /\ current_slow > 0 /\ current_fast # NaN
    THEN LET gap == Max2(current_fast - current_slow, current_slow - current_fast)
         IN IF gap * 100 >= 10 * current_slow THEN 15
            ELSE IF gap * 100 >= 5 * current_slow THEN 10
            ELSE IF gap * 100 >= 2 * current_slow THEN 5
            ELSE 0
    ELSE 0

\* ma_separation_pct = abs(fast - slow) / slow * 100 and the bonus it earns
\* (the moving averages of prices are positive)
MASeparationBonus(current_fast, current_slow) ==
    IF current_slow # NaN /\ current_slow > 0 /\ current_fast # NaN
    THEN LET gap == Max2(current_fast - current_slow, current_slow - current_fast)
         IN IF gap * 100 > 10 * current_slow THEN 15
            ELSE IF gap * 100 > 5 * current_slow THEN 10
            ELSE IF gap * 100 > 2 * current_slow THEN 5
            ELSE 0
    ELSE 0

\* analyze on the input i: n bars, vf / vs valid values of the two moving
\* averages, their last two values and the last close
MAResult(i) ==
    IF i.n < MARequiredDataLength
    THEN Degraded("Insufficient data points")
    ELSE IF i.vf < 2 \/ i.vs < 2
    THEN Degraded("Insufficient recent calculated moving averages")
    ELSE ModelResult(MASignal(i.cf, i.cs, i.pf, i.ps, i.price),
                     Clamp(MABaseConfidence(i.cf, i.cs, i.pf, i.ps)
                           + MASeparationBonus(i.cf, i.cs)),
                     None)

\* the values of the moving averages and of the close in the calls: around
\* a slow average of 100, a fast average on, just below and just above the
\* separations of 2, 5 and 10 percent
MAFastVals == {NaN, 89, 94, 97, 98, 100, 102, 103, 105, 106, 110, 111}
MAPrevFastVals == {NaN, 99, 100, 101}
MASlowVals == {NaN, 100}
MAPriceVals == {NaN, 96, 104}

\* how many of two values are present
Present(a, b) == (IF a # NaN THEN 1 ELSE 0) + (IF b # NaN THEN 1 ELSE 0)

\* the inputs of the calls: the last two values that are present are valid
\* values, and a series of n bars has n - p - 1 more places where SMA(p)
\* can hold a value
MACallInputs ==
    {i \in [n : {MARequiredDataLength - 1, MARequiredDataLength,
                 MARequiredDataLength + 1, MARequiredDataLength + 50},
            vf : 0..2, vs : 0..2, cf : MAFastVals, cs : MASlowVals,
            pf : MAPrevFastVals, ps : MASlowVals, price : MAPriceVals] :
        /\ Present(i.cf, i.pf) <= i.vf
        /\ i.vf <= Present(i.cf, i.pf) + Max2(0, i.n - 50 - 1)
        /\ Present(i.cs, i.ps) <= i.vs
        /\ i.vs <= Present(i.cs, i.ps) + Max2(0, i.n - 200 - 1)}

MAAnalyzeCall ==
    /\ program = "models"
    /\ call = NoCall
    /\ \E i \in MACallInputs :
          /\ call' = [fn |-> "MovingAverageCrossoverModel.analyze", args |-> i]
          /\ result' = MAResult(i)
    /\ UNCHANGED program
    /\ UNCHANGED fmVars
    /\ UNCHANGED saVars

\* ---- MACDMomentumModel.analyze ----
\* The rule cascade works on the pair (signal, confidence), which starts as
\* ("HOLD", 0); each rule is a step on that pair.
MACDStart == [signal |-> "HOLD", confidence |-> 0]

\* MACD line against signal line
MACDLineStep(st, current_macd, current_signal) ==
    IF current_macd # NaN /\ current_signal # NaN
    THEN IF current_macd > current_signal
         THEN [signal |-> IF st.signal # "SELL" THEN "BUY" ELSE st.signal,
               confidence |-> st.confidence + 25]
         ELSE [signal |-> IF st.signal # "BUY" THEN "SELL" ELSE st.signal,
               confidence |-> st.confidence + 25]
    ELSE st

\* histogram: expanding or contracting momentum
MACDHistogramStep(st, current_histogram, prev_histogram) ==
    IF current_histogram # NaN /\ prev_histogram # NaN
    THEN IF current_histogram > 0 /\ current_histogram > prev_histogram
         THEN [st EXCEPT !.confidence = @ + 20]
         ELSE IF current_histogram < 0 /\ current_histogram < prev_histogram
         THEN [st EXCEPT !.confidence = @ + 20]
         ELSE IF current_histogram > 0 /\ current_histogram < prev_histogram
         THEN [st EXCEPT !.confidence = @ - 10]
         ELSE IF current_histogram < 0 /\ current_histogram > prev_histogram
         THEN [st EXCEPT !.confidence = @ - 10]
         ELSE st
    ELSE st

\* faulty variant: a zero-line cross sets the signal whatever it was
MACDZeroLineStep_override(st, current_macd, prev_macd) ==
    IF current_macd # NaN /\ prev_macd # NaN
    THEN IF current_macd > 0 /\ prev_macd <= 0
         THEN [signal |-> "BUY", confidence |-> st.confidence + 30]
         ELSE IF current_macd < 0 /\ prev_macd >= 0
         THEN [signal |-> "SELL", confidence |-> st.confidence + 30]
         ELSE st
    ELSE st

\* zero-line crossover
MACDZeroLineStep(st, current_macd, prev_macd) ==
    IF current_macd # NaN /\ prev_macd # NaN
    THEN IF current_macd > 0 /\ prev_macd <= 0
         THEN [signal |-> IF st.signal \in {"HOLD", "WAIT"} THEN "BUY" ELSE st.signal,
               confidence |-> st.confidence + 30]
         ELSE IF current_macd < 0 /\ prev_macd >= 0
         THEN [signal |-> IF st.signal \in {"HOLD", "WAIT"} THEN "SELL" ELSE st.signal,
               confidence |-> st.confidence + 30]
         ELSE st
    ELSE st

\* signal-line crossover
MACDSignalCrossStep(st, current_macd, current_signal, prev_macd, prev_signal) ==
    IF current_macd # NaN /\ current_signal # NaN /\ prev_macd # NaN /\ prev_signal # NaN
    THEN IF current_macd > current_signal /\ prev_macd <= prev_signal
         THEN [signal |-> IF st.signal \in {"HOLD", "WAIT"} THEN "BUY" ELSE st.signal,
               confidence |-> st.confidence + 25]
         ELSE IF current_macd < current_signal /\ prev_macd >= prev_signal
         THEN [signal |-> IF st.signal \in {"HOLD", "WAIT"} THEN "SELL" ELSE st.signal,
               confidence |-> st.confidence + 25]
         ELSE st
    ELSE st

\* the pair after the line rule, after the histogram rule, after the
\* zero-line rule and after the signal-line crossover rule
MACDAfterLine(i) == MACDLineStep(MACDStart, i.cm, i.cs)
MACDAfterHistogram(i) == MACDHistogramStep(MACDAfterLine(i), i.ch, i.ph)
MACDAfterZeroLine(i) == MACDZeroLineStep(MACDAfterHistogram(i), i.cm, i.pm)
MACDAfterSignalCross(i) == MACDSignalCrossStep(MACDAfterZeroLine(i), i.cm, i.cs, i.pm, i.ps)

\* analyze on the input i: n bars, vm / vs / vh valid values of the MACD
\* line, the signal line and the histogram, and their last two values
MACDResult(i) ==
    IF i.n < MACDRequiredDataLength
    THEN Degraded("Insufficient data points")
    ELSE IF i.vm < 2 \/ i.vs < 2 \/ i.vh < 2
    THEN Degraded("Insufficient recent indicator data for analysis")
    ELSE ModelResult(MACDAfterSignalCross(i).signal,
                     Clamp(MACDAfterSignalCross(i).confidence),
                     None)

\* the values of the three series in the calls (-1 stands for a missing
\* value, so it is not among them)
MACDVals == {NaN, -2, 0, 2}
MACDSignalVals == {NaN, -3, 0, 3}

\* the inputs of the calls: a value that is present is one of the valid
\* values of its series
MACDCallInputs ==
    {i \in [n : {MACDRequiredDataLength - 1, MACDRequiredDataLength},
            vm : 0..2, vs : 0..2, vh : 0..2,
            cm : MACDVals, pm : MACDVals, cs : MACDSignalVals, ps : MACDSignalVals,
            ch : MACDVals, ph : MACDSignalVals] :
        /\ Present(i.cm, i.pm) <= i.vm
        /\ Present(i.cs, i.ps) <= i.vs
        /\ Present(i.ch, i.ph) <= i.vh}

MACDAnalyzeCall ==
    /\ program = "models"
    /\ call = NoCall
    /\ \E i \in MACDCallInputs :
          /\ call' = [fn |-> "MACDMomentumModel.analyze", args |-> i]
          /\ result' = MACDResult(i)
    /\ UNCHANGED program
    /\ UNCHANGED fmVars
    /\ UNCHANGED saVars

\* ---- RSIMeanReversionModel.analyze ----
\* A series is given by its last bars, oldest first; the bars before them
\* carry no value.
\* series.dropna()
DropNa(series) == SelectSeq(series, LAMBDA x : x # NaN)

Min3(a, b, c) == Min2(a, Min2(b, c))

\* the positions where series equals its rolling(window=3, center=True) min
\* (max): the rolling value of the first and of the last position is missing
LowsIndices(series) ==
    {k \in 2..(Len(series) - 1) : series[k] = Min3(series[k - 1], series[k], series[k + 1])}
HighsIndices(series) ==
    {k \in 2..(Len(series) - 1) : series[k] = Max3(series[k - 1], series[k], series[k + 1])}

\* indices[-1] and indices[-2] of a set of at least two positions
Last(indices) == CHOOSE k \in indices : \A j \in indices : j <= k
SecondLast(indices) == Last(indices \ {Last(indices)})

NoDivergence == [type |-> "None", strength |-> 0]

\* detect_divergence(prices, rsi_values), both without missing values
detect_divergence(prices, rsi_values) ==
    IF Len(prices) < 5 \/ Len(rsi_values) < 5
    THEN NoDivergence
    ELSE LET price_lows == LowsIndices(prices)
             rsi_lows == LowsIndices(rsi_values)
             price_highs == HighsIndices(prices)
             rsi_highs == HighsIndices(rsi_values)
         IN IF /\ Cardinality(price_lows) >= 2 /\ Cardinality(rsi_lows) >= 2
               /\ prices[Last(price_lows)] < prices[SecondLast(price_lows)]
               /\ rsi_values[Last(rsi_lows)] > rsi_values[SecondLast(rsi_lows)]
            THEN [type |-> "Potential Bullish", strength |-> 15]
            ELSE IF /\ Cardinality(price_highs) >= 2 /\ Cardinality(rsi_highs) >= 2
                    /\ prices[Last(price_highs)] > prices[SecondLast(price_highs)]
                    /\ rsi_values[Last(rsi_highs)] < rsi_values[SecondLast(rsi_highs)]
            THEN [type |-> "Potential Bearish", strength |-> 15]
            ELSE NoDivergence

\* the divergence analyze works with: detection needs at least 20 bars (the
\* lookback) and 5 valid closes and RSI values in them
RSIDivergence(i) ==
    IF i.n >= Max2(14, 20) /\ Len(DropNa(i.closes)) >= 5 /\ Len(DropNa(i.rsi)) >= 5
    THEN detect_divergence(DropNa(i.closes), DropNa(i.rsi))
    ELSE NoDivergence

\* The rule cascade works on the pair (signal, confidence), from ("HOLD", 0).
\* the threshold rule: oversold below 30, overbought above 70
RSIThresholdStep(current_rsi, prev_rsi) ==
    IF current_rsi # NaN
    THEN IF current_rsi < 30
         THEN [signal |-> "BUY",
               confidence |-> 40 + (IF prev_rsi # NaN /\ current_rsi > prev_rsi THEN 20 ELSE 0)]
         ELSE IF current_rsi > 70
         THEN [signal |-> "SELL",
               confidence |-> 40 + (IF prev_rsi # NaN /\ current_rsi < prev_rsi THEN 20 ELSE 0)]
         ELSE IF current_rsi >= 40 /\ current_rsi <= 60
         THEN [signal |-> "HOLD", confidence |-> 10]
         ELSE [signal |-> "HOLD", confidence |-> 0]
    ELSE [signal |-> "HOLD", confidence |-> 0]

\* price against the 20-day SMA
RSIPriceStep(st, current_price, current_sma20) ==
    IF current_price # NaN /\ current_sma20 # NaN
    THEN IF current_price > current_sma20
         THEN (IF st.signal = "BUY" THEN [st EXCEPT !.confidence = @ + 15] ELSE st)
         ELSE (IF st.signal = "SELL" THEN [st EXCEPT !.confidence = @ + 15] ELSE st)
    ELSE st

\* the divergence rule
RSIDivergenceStep(st, divergence) ==
    IF divergence.type # "None"
    THEN LET bullish == IF divergence.type = "Bullish" /\ st.signal # "SELL" /\ divergence.strength > 15
                        THEN "BUY" ELSE st.signal
         IN [signal |-> IF divergence.type = "Bearish" /\ bullish # "BUY" /\ divergence.strength > 15
                        THEN "SELL" ELSE bullish,
             confidence |-> st.confidence + divergence.strength]
    ELSE st

\* the last and the last but one value of a series of bars
Current(series) == series[Len(series)]
Previous(series) == series[Len(series) - 1]

\* the pair after the threshold rule, after the price rule and after the
\* divergence rule
RSIAfterThreshold(i) == RSIThresholdStep(Current(i.rsi), Previous(i.rsi))
RSIAfterPrice(i) == RSIPriceStep(RSIAfterThreshold(i), Current(i.closes), i.sma20)
RSIAfterDivergence(i) == RSIDivergenceStep(RSIAfterPrice(i), RSIDivergence(i))

\* analyze on the input i: n bars, the last bars of the RSI and of the
\* closes, vsma valid values of SMA_20 and its last value
RSIResult(i) ==
    IF i.n < RSIRequiredDataLength
    THEN Degraded("Insufficient data points")
    ELSE IF Len(DropNa(i.rsi)) < 2 \/ i.vsma < 1
    THEN Degraded("Insufficient recent indicator data for analysis")
    ELSE ModelResult(RSIAfterDivergence(i).signal,
                     Clamp(RSIAfterDivergence(i).confidence),
                     None)

\* the last five RSI values of the calls: neutral, oversold and overbought
\* endings, with two lows or two highs, with a missing value
RSITails ==
    {<<50, 20, 50, 25, 45>>, <<50, 60, 45, 55, 50>>, <<20, 28, 20, 25, 22>>,
     <<80, 72, 80, 75, 78>>, <<35, 30, 27, 25, 28>>, <<65, 70, 73, 75, 72>>,
     <<65, 66, 67, 68, 65>>, <<35, 34, 33, 32, 35>>,
     <<50, 20, 50, 25, NaN>>, <<50, 20, 50, NaN, 45>>, <<NaN, NaN, NaN, NaN, 50>>}

\* the last five closes of the calls: a lower low, a higher high, flat, and
\* a missing last close
ClosesTails ==
    {<<3, 2, 3, 1, 3>>, <<1, 2, 1, 3, 1>>, <<2, 2, 2, 2, 2>>, <<3, 2, 3, 1, NaN>>}

\* the inputs of the calls: SMA_20 has at most n - 20 + 1 valid values, and
\* its last value, when present, is one of them
RSICallInputs ==
    {i \in [n : {RSIRequiredDataLength - 1, RSIRequiredDataLength, Max2(14, 20)},
            rsi : RSITails, closes : ClosesTails, vsma : 0..1, sma20 : {NaN, 2}] :
        /\ (i.sma20 # NaN => i.vsma = 1)
        /\ i.vsma <= Max2(0, i.n - 20 + 1)}

RSIAnalyzeCall ==
    /\ program = "models"
    /\ call = NoCall
    /\ \E i \in RSICallInputs :
          /\ call' = [fn |-> "RSIMeanReversionModel.analyze", args |-> i]
          /\ result' = RSIResult(i)
    /\ UNCHANGED program
    /\ UNCHANGED fmVars
    /\ UNCHANGED saVars

\* ---- BollingerBandsModel.analyze ----
\* A row of the band walk: a close with the two bands of its bar.
UpperTouch(row) == row.price * 100 >= row.upper * 98
LowerTouch(row) == row.price * 100 <= row.lower * 102

\* the rows that dropna() keeps
AlignedRows(rows) ==
    SelectSeq(rows, LAMBDA r : r.price # NaN /\ r.upper # NaN /\ r.lower # NaN)

\* the last k rows, all of them when there are fewer: rows[-k:]
LastRows(rows, k) ==
    IF Len(rows) <= k THEN rows ELSE SubSeq(rows, Len(rows) - k + 1, Len(rows))

\* the touches are counted in the whole of the rows handed over
detect_band_walk_window(rows) ==
    LET upper_touches == Cardinality({k \in DOMAIN rows : UpperTouch(rows[k])})
        lower_touches == Cardinality({k \in DOMAIN rows : LowerTouch(rows[k])})
    IN  IF Len(rows) < 5 THEN [type |-> "None", strength |-> 0]
        ELSE IF upper_touches >= 3 THEN [type |-> "Upper Band Walk", strength |-> 15]
        ELSE IF lower_touches >= 3 THEN [type |-> "Lower Band Walk", strength |-> 15]
        ELSE [type |-> "None", strength |-> 0]

\* detect_band_walk on rows without missing values: the touches are counted
\* in the last lookback = 5 rows, the upper band first
detect_band_walk(rows) ==
    LET recent == AlignedRows(LastRows(rows, 5))
        upper_touches == Cardinality({k \in DOMAIN recent : UpperTouch(recent[k])})
        lower_touches == Cardinality({k \in DOMAIN recent : LowerTouch(recent[k])})
    IN  IF Len(AlignedRows(rows)) < 5 THEN [type |-> "None", strength |-> 0]
        ELSE IF Len(recent) < 5 THEN [type |-> "None", strength |-> 0]
        ELSE IF upper_touches >= 3 THEN [type |-> "Upper Band Walk", strength |-> 15]
        ELSE IF lower_touches >= 3 THEN [type |-> "Lower Band Walk", strength |-> 15]
        ELSE [type |-> "None", strength |-> 0]

\* price within 2% of the lower band: current_price <= current_lower * 1.02
\* or lower_distance_pct <= 2 (the bands of prices are positive)
BBNearLower(current_price, current_lower) ==
    /\ current_price # NaN
    /\ current_lower # NaN
    /\ \/ current_price * 100 <= current_lower * 102
       \/ (current_lower - current_price) * 100 <= 2 * current_lower

\* price within 2% of the upper band: current_price >= current_upper * 0.98
\* or upper_distance_pct >= -2
BBNearUpper(current_price, current_upper) ==
    /\ current_price # NaN
    /\ current_upper # NaN
    /\ \/ current_price * 100 >= current_upper * 98
       \/ (current_price - current_upper) * 100 >= 0 - 2 * current_upper

\* current_volume > avg_volume * 1.2
BBHighVolume(current_volume, avg_volume) ==
    current_volume # NaN /\ avg_volume # NaN /\ current_volume * 10 > avg_volume * 12

\* band_width_pct < avg_band_width * 0.8, with band_width_pct =
\* (upper - lower) / middle * 100
BBSqueeze(current_upper, current_lower, current_middle, avg_band_width) ==
    /\ current_upper # NaN /\ current_lower # NaN
    /\ current_middle # NaN /\ current_middle > 0
    /\ avg_band_width # NaN
    /\ (current_upper - current_lower) * 100 * 10 < avg_band_width * 8 * current_middle

\* The rule cascade works on the pair (signal, confidence), from ("HOLD", 0).
\* price near a band, with its volume confirmation
BBBandStep(i) ==
    IF BBNearLower(i.price, i.lower)
    THEN [signal |-> "BUY",
          confidence |-> 35 + (IF BBHighVolume(i.volume, i.avg_volume) THEN 15 ELSE 0)]
    ELSE IF BBNearUpper(i.price, i.upper)
    THEN [signal |-> "SELL",
          confidence |-> 35 + (IF BBHighVolume(i.volume, i.avg_volume) THEN 15 ELSE 0)]
    ELSE [signal |-> "HOLD", confidence |-> 0]

\* band squeeze
BBSqueezeStep(st, i) ==
    IF BBSqueeze(i.upper, i.lower, i.middle, i.avg_band_width)
    THEN [st EXCEPT !.confidence = @ + 10] ELSE st

\* price against the middle band
BBMiddleStep(st, i) ==
    IF i.price # NaN /\ i.middle # NaN
    THEN IF i.price > i.middle
         THEN (IF st.signal = "BUY" THEN [st EXCEPT !.confidence = @ + 10] ELSE st)
         ELSE (IF st.signal = "SELL" THEN [st EXCEPT !.confidence = @ + 10] ELSE st)
    ELSE st

\* the most recent period bars: the bars before the last one and the last
\* bar, and the rows of them that dropna() keeps
BBRecentRows(i) ==
    LastRows(Append(i.rows, [price |-> i.price, upper |-> i.upper, lower |-> i.lower]),
             BBRequiredDataLength)

BBBandWalk(i) ==
    IF Len(AlignedRows(BBRecentRows(i))) >= 5
    THEN detect_band_walk(AlignedRows(BBRecentRows(i)))
    ELSE [type |-> "None", strength |-> 0]

\* band walk: its strength is added when a walk was detected
BBWalkStep(st, i) ==
    IF BBBandWalk(i).type # "None"
    THEN [st EXCEPT !.confidence = @ + BBBandWalk(i).strength]
    ELSE st

BBCascade(i) == BBWalkStep(BBMiddleStep(BBSqueezeStep(BBBandStep(i), i), i), i)

\* analyze on the input i: n bars, vu / vm / vl / vv valid values of the
\* three bands and of SMA_20, the last values, the mean band width and the
\* rows of the bars before the last one; the result carries the band walk of
\* bollingerAnalysis
BBResult(i) ==
    IF i.n < BBRequiredDataLength
    THEN Degraded("Insufficient data points")
    ELSE IF i.vu < 1 \/ i.vm < 1 \/ i.vl < 1 \/ i.vv < 1
    THEN Degraded("Insufficient recent indicator data for analysis")
    ELSE [signal |-> BBCascade(i).signal,
          confidence |-> Clamp(BBCascade(i).confidence),
          error |-> None,
          bandWalk |-> BBBandWalk(i).type]

\* a bar before the last one: its close against bands of 90 and 110, or a
\* bar with a missing value
Row(p) ==
    IF p = NaN THEN [price |-> NaN, upper |-> NaN, lower |-> NaN]
    ELSE [price |-> p, upper |-> 110, lower |-> 90]

\* the closes of the six bars before the last one in the calls: inside the
\* bands, at the upper band early or late, at the lower band late, three
\* bars missing, and alternating between the bands
BBRecentCloses ==
    {<<100, 100, 100, 100, 100, 100>>,
     <<120, 120, 120, 100, 100, 100>>,
     <<100, 100, 100, 120, 120, 120>>,
     <<100, 100, 100, 80, 80, 80>>,
     <<NaN, NaN, NaN, 120, 120, 120>>,
     <<120, 80, 120, 80, 120, 80>>}

\* the rows of the bars before the last one, n - 1 of them: bars inside the
\* bands and then the six closes
BBRows(n, closes) ==
    [k \in 1..(n - 1) |->
        IF k <= n - 1 - Len(closes) THEN Row(100)
        ELSE Row(closes[k - (n - 1 - Len(closes))])]

\* the inputs of the calls: bands of 90 / 100 / 110, a close below, inside
\* and above them; a last value that is present is a valid value. avg_volume
\* is the last value of the SMA_20 column, which the indicator engine
\* computes from the closes; mean_volume is the mean of the last 20 volumes,
\* which no column holds
BBCallInputs ==
    {i \in [n : {BBRequiredDataLength - 1, BBRequiredDataLength},
            vu : 0..1, vm : 0..1, vl : 0..1, vv : 0..1,
            price : {NaN, 80, 100, 120}, upper : {NaN, 110}, middle : {NaN, 100},
            lower : {NaN, 90}, volume : {NaN, 100, 200}, avg_volume : {NaN, 100},
            mean_volume : {100, 1000},
            avg_band_width : {NaN, 20, 30},
            rows : {BBRows(n, c) : n \in {BBRequiredDataLength - 1, BBRequiredDataLength},
                                  c \in BBRecentCloses}] :
        /\ Len(i.rows) = i.n - 1
        /\ (i.upper # NaN => i.vu = 1)
        /\ (i.middle # NaN => i.vm = 1)
        /\ (i.lower # NaN => i.vl = 1)
        /\ (i.avg_volume # NaN => i.vv = 1)}

BBAnalyzeCall ==
    /\ program = "models"
    /\ call = NoCall
    /\ \E i \in BBCallInputs :
          /\ call' = [fn |-> "BollingerBandsModel.analyze", args |-> i]
          /\ result' = BBResult(i)
    /\ UNCHANGED program
    /\ UNCHANGED fmVars
    /\ UNCHANGED saVars

\* ---- MovingAverageCrossoverModel.find_crossovers ----
\* the longest series find_crossovers is called with
MaxCrossoverBars == 4

\* the positions of set, in ascending order
RECURSIVE Ascending(_)
Ascending(set) ==
    IF set = {} THEN <<>>
    ELSE LET k == CHOOSE x \in set : \A y \in set : x <= y
         IN <<k>> \o Ascending(set \ {k})

\* the events of the given type at the given positions, in ascending order
Events(indices, type) ==
    [j \in 1..Cardinality(indices) |-> [timestamp |-> Ascending(indices)[j], type |-> type]]

\* crossovers[-5:] if len(crossovers) > 5 else crossovers
LastFive(crossovers) ==
    IF Len(crossovers) > 5
    THEN SubSeq(crossovers, Len(crossovers) - 4, Len(crossovers))
    ELSE crossovers

\* the positions where fast, slow and both shifted series hold a value
valid_indices(fast_ma_series, slow_ma_series) ==
    {k \in 2..Len(fast_ma_series) :
        /\ fast_ma_series[k] # NaN /\ slow_ma_series[k] # NaN
        /\ fast_ma_series[k - 1] # NaN /\ slow_ma_series[k - 1] # NaN}

bullish_crossovers_indices(fast_ma_series, slow_ma_series) ==
    {k \in valid_indices(fast_ma_series, slow_ma_series) :
        /\ fast_ma_series[k] > slow_ma_series[k]
        /\ fast_ma_series[k - 1] <= slow_ma_series[k - 1]}

bearish_crossovers_indices(fast_ma_series, slow_ma_series) ==
    {k \in valid_indices(fast_ma_series, slow_ma_series) :
        /\ fast_ma_series[k] < slow_ma_series[k]
        /\ fast_ma_series[k - 1] >= slow_ma_series[k - 1]}

\* find_crossovers: the Golden Cross events, then the Death Cross events,
\* and of that list the last five
find_crossovers(fast_ma_series, slow_ma_series) ==
    IF Cardinality(valid_indices(fast_ma_series, slow_ma_series)) < 2
    THEN <<>>
    ELSE LastFive(Events(bullish_crossovers_indices(fast_ma_series, slow_ma_series), "Golden Cross")
                  \o Events(bearish_crossovers_indices(fast_ma_series, slow_ma_series), "Death Cross"))

\* the pairs of series of the calls: up to MaxCrossoverBars bars, the fast
\* average below, on or above a slow average of 2, either possibly missing
CrossoverSeries(len) == [fast : [1..len -> {NaN, 1, 2, 3}], slow : [1..len -> {NaN, 2}]]

FindCrossoversCall ==
    /\ program = "models"
    /\ call = NoCall
    /\ \E len \in 1..MaxCrossoverBars :
          \E i \in CrossoverSeries(len) :
              /\ call' = [fn |-> "MovingAverageCrossoverModel.find_crossovers", args |-> i]
              /\ result' = [crossovers |-> find_crossovers(i.fast, i.slow)]
    /\ UNCHANGED program
    /\ UNCHANGED fmVars
    /\ UNCHANGED saVars

\* ---- stock_analysis: analyze_stock of the four models ----
\* required_data_points of each model, with the default windows
MovingAverageCrossoverRequired == 200
RsiMeanReversionRequired == 14 + 1
MacdMomentumRequired == 26 + 9 - 1
BollingerBandsRequired == 20

required_data_points(m) ==
    CASE m = "MovingAverageCrossoverModel" -> MovingAverageCrossoverRequired
      [] m = "RsiMeanReversionModel" -> RsiMeanReversionRequired
      [] m = "MacdMomentumModel" -> MacdMomentumRequired
      [] m = "BollingerBandsModel" -> BollingerBandsRequired

\* every way analyze_stock of model m can end on historical data of n bars:
\* the insufficient-data recommendation is returned before anything is
\* computed
analyze_stock(m, n) ==
    IF n < required_data_points(m)
    THEN {Rec("WAIT", 0, "Insufficient data")}
    ELSE AnalyzeStockOutcomes(m)

AnalyzeStockCall ==
    /\ program = "models"
    /\ call = NoCall
    /\ \E m \in {saModels[k] : k \in 1..Len(saModels)} :
          \E n \in {0, required_data_points(m) - 1, required_data_points(m)} :
              /\ call' = [fn |-> "analyze_stock", args |-> [model |-> m, n |-> n]]
              /\ result' \in analyze_stock(m, n)
    /\ UNCHANGED program
    /\ UNCHANGED fmVars
    /\ UNCHANGED saVars

\* ---- the simple moving averages ----
\* A value of a computed series: missing, or the mean sum / count.
Missing == [valid |-> FALSE, sum |-> 0, count |-> 0]

RECURSIVE SumOf(_, _)
SumOf(closes, idx) ==
    IF idx = {} THEN 0
    ELSE LET k == CHOOSE j \in idx : TRUE IN closes[k] + SumOf(closes, idx \ {k})

\* Series.rolling(window=window, min_periods=min_periods).mean(): at each
\* bar the mean of the values present among the last window bars, missing
\* when fewer than min_periods of them are present
RollingMean(closes, window, min_periods) ==
    [k \in 1..Len(closes) |->
        LET obs == {j \in Max2(1, k - window + 1)..k : closes[j] # NaN}
        IN  IF Cardinality(obs) < min_periods THEN Missing
            ELSE [valid |-> TRUE, sum |-> SumOf(closes, obs), count |-> Cardinality(obs)]]

\* FInMasterv2 TechnicalIndicators.calculate_sma: min_periods defaults to
\* the window
technical_calculate_sma(data, period) ==
    [raised |-> None, values |-> RollingMean(data, period, period)]

\* the closes of the calls: 1, 2, ..., n
MaxSMABars == 50
MaxSMAWindow == 10
Arange(n) == [k \in 1..n |-> k]

TechnicalCalculateSmaCall ==
    /\ program = "models"
    /\ call = NoCall
    /\ \E n \in 0..MaxSMABars, period \in 1..MaxSMAWindow :
          /\ call' = [fn |-> "TechnicalIndicators.calculate_sma",
                      args |-> [n |-> n, window |-> period]]
          /\ result' = technical_calculate_sma(Arange(n), period)
    /\ UNCHANGED program
    /\ UNCHANGED fmVars
    /\ UNCHANGED saVars

\* ---- stock_analysis: IndicatorCalculator ----
_determine_data_regime(data_length) ==
    IF data_length < 60 THEN "short"
    ELSE IF data_length < 150 THEN "medium"
    ELSE "long"

WINDOW_CONFIGS ==
    [short |-> [sma_short |-> 5, sma_medium |-> 10, sma_long |-> 20, rsi |-> 14,
                macd_fast |-> 8, macd_slow |-> 17, macd_signal |-> 9,
                bb_period |-> 10, bb_std |-> 2],
     medium |-> [sma_short |-> 10, sma_medium |-> 20, sma_long |-> 50, rsi |-> 14,
                 macd_fast |-> 12, macd_slow |-> 26, macd_signal |-> 9,
                 bb_period |-> 20, bb_std |-> 2],
     long |-> [sma_short |-> 20, sma_medium |-> 50, sma_long |-> 200, rsi |-> 14,
               macd_fast |-> 12, macd_slow |-> 26, macd_signal |-> 9,
               bb_period |-> 20, bb_std |-> 2]]

\* config.get(indicator_type, min(requested_window, data_length // 4))
ConfigGet(config, indicator_type, default) ==
    IF indicator_type \in DOMAIN config THEN config[indicator_type] ELSE default

\* if fallback_window > data_length: fallback_window = max(2, data_length // 4)
FallbackWindow(fallback_window, data_length) ==
    IF fallback_window > data_length THEN Max2(2, data_length \div 4) ELSE fallback_window

\* _get_adaptive_window: the window returned and whether a warning was
\* emitted; requested_window <= data_length * 0.3 is 10 * requested_window
\* <= 3 * data_length
_get_adaptive_window(data_length, requested_window, indicator_type) ==
    LET config == WINDOW_CONFIGS[_determine_data_regime(data_length)]
        fallback_window ==
            FallbackWindow(ConfigGet(config, indicator_type,
                                     Min2(requested_window, data_length \div 4)),
                           data_length)
    IN  IF 10 * requested_window <= 3 * data_length
        THEN [window |-> requested_window, warned |-> FALSE]
        ELSE [window |-> fallback_window, warned |-> fallback_window # requested_window]

\* the indicator types the calculator passes, and one that no regime holds
IndicatorTypes == {"sma_long", "rsi", "macd_fast", "macd_slow", "macd_signal", "bb_period", "custom"}

\* the windows requested: the default windows of the indicators and of the
\* trading models
RequestedWindows == {1, 2, 3, 5, 9, 10, 12, 14, 20, 26, 50, 200}

GetAdaptiveWindowCall ==
    /\ program = "models"
    /\ call = NoCall
    /\ \E n \in 1..MaxBars, w \in RequestedWindows, t \in IndicatorTypes :
          /\ call' = [fn |-> "IndicatorCalculator._get_adaptive_window",
                      args |-> [n |-> n, window |-> w, indicator_type |-> t]]
          /\ result' = _get_adaptive_window(n, w, t)
    /\ UNCHANGED program
    /\ UNCHANGED fmVars
    /\ UNCHANGED saVars

\* IndicatorCalculator.calculate_sma with a window and adaptive = True:
\* _validate_data raises on empty data
calculate_sma(closes, window) ==
    IF Len(closes) = 0
    THEN [raised |-> "ValueError", values |-> <<>>]
    ELSE [raised |-> None,
          values |-> RollingMean(closes,
                                 _get_adaptive_window(Len(closes), window, "sma_long").window,
                                 1)]

CalculateSmaCall ==
    /\ program = "models"
    /\ call = NoCall
    /\ \E n \in 0..MaxSMABars, window \in 1..MaxSMAWindow :
          /\ call' = [fn |-> "IndicatorCalculator.calculate_sma",
                      args |-> [n |-> n, window |-> window]]
          /\ result' = calculate_sma(Arange(n), window)
    /\ UNCHANGED program
    /\ UNCHANGED fmVars
    /\ UNCHANGED saVars

\* ---- FInMasterv2: IndicatorCalculator.calculate_all_indicators ----
\* indicators_to_calculate, in the order of the dictionary: the minimum bar
\* count, is_required and the columns the result of the function fills
indicators_to_calculate ==
    <<[name |-> "SMA_20", min_periods |-> 20, is_required |-> FALSE,
       columns |-> <<"SMA_20">>],
      [name |-> "SMA_50", min_periods |-> 50, is_required |-> FALSE,
       columns |-> <<"SMA_50">>],
      [name |-> "SMA_200", min_periods |-> SMA200MinPeriods, is_required |-> TRUE,
       columns |-> <<"SMA_200">>],
      [name |-> "EMA_20", min_periods |-> 20, is_required |-> FALSE,
       columns |-> <<"EMA_20">>],
      [name |-> "EMA_50", min_periods |-> 50, is_required |-> FALSE,
       columns |-> <<"EMA_50">>],
      [name |-> "EMA_200", min_periods |-> 200, is_required |-> FALSE,
       columns |-> <<"EMA_200">>],
      [name |-> "RSI_14", min_periods |-> RSI14MinPeriods, is_required |-> TRUE,
       columns |-> <<"RSI_14">>],
      [name |-> "MACD", min_periods |-> MACDMinPeriods, is_required |-> TRUE,
       columns |-> <<"MACD_macd_line", "MACD_signal_line", "MACD_histogram">>],
      [name |-> "BollingerBands_20_2", min_periods |-> BBMinPeriods, is_required |-> TRUE,
       columns |-> <<"BollingerBands_20_2_upper", "BollingerBands_20_2_middle",
                     "BollingerBands_20_2_lower">>],
      [name |-> "ATR_14", min_periods |-> ATR14MinPeriods, is_required |-> TRUE,
       columns |-> <<"ATR_14">>]>>

\* the DataFrame of a StockData with data: its columns, each holding the
\* values fetched ("values") or nothing but missing values ("missing")
StockDataFrame ==
    [c \in {"open", "high", "low", "close", "volume"} |-> "values"]

\* self._df[col] = content for each of the columns
RECURSIVE SetColumns(_, _, _)
SetColumns(df, columns, content) ==
    IF columns = <<>> THEN df
    ELSE SetColumns(Put(df, Head(columns), content), Tail(columns), content)

\* an indicator is computed on more bars than its minimum only
sufficient_data_strict(num_data_points, min_periods) == num_data_points > min_periods

\* sufficient_data: num_data_points >= min_periods, the series of a
\* StockData with data being present
sufficient_data(num_data_points, min_periods) == num_data_points >= min_periods

\* the loop over indicators_to_calculate from its k-th entry: it writes the
\* columns into the DataFrame of the StockData as it goes
RECURSIVE CalculateFrom(_, _, _)
CalculateFrom(k, num_data_points, df) ==
    IF k > Len(indicators_to_calculate) THEN [raised |-> None, df |-> df]
    ELSE LET ind == indicators_to_calculate[k]
         IN  IF sufficient_data(num_data_points, ind.min_periods)
             THEN CalculateFrom(k + 1, num_data_points,
                                SetColumns(df, ind.columns, "values"))
             ELSE IF ind.is_required
             THEN [raised |-> "IndicatorCalculationError", df |-> df]
             ELSE CalculateFrom(k + 1, num_data_points,
                                SetColumns(df, <<ind.name>>, "missing"))

calculate_all_indicators(num_data_points, df) == CalculateFrom(1, num_data_points, df)

CalculateAllIndicatorsCall ==
    /\ program = "models"
    /\ call = NoCall
    /\ \E n \in 1..MaxBars :
          /\ call' = [fn |-> "IndicatorCalculator.calculate_all_indicators",
                      args |-> [n |-> n, df |-> StockDataFrame]]
          /\ result' = calculate_all_indicators(n, StockDataFrame)
    /\ UNCHANGED program
    /\ UNCHANGED fmVars
    /\ UNCHANGED saVars

\* ---- stock_analysis: MovingAverageCrossoverModel.analyze_stock ----
\* 'Weekly' if avg_time_diff > pd.Timedelta(days=1) else 'Daily', with the
\* mean distance of the bars in days
Timeframe(avg_time_diff) == IF avg_time_diff > 1 THEN "Weekly" ELSE "Daily"

\* the recommendation and its confidence, in hundredths, from the latest
\* values of the two averages and the latest close
CrossoverSignal(latest_short_sma, latest_long_sma, latest_close) ==
    IF latest_short_sma > latest_long_sma /\ latest_close > latest_short_sma
    THEN [recommendation |-> "BUY", confidence |-> 70]
    ELSE IF latest_short_sma < latest_long_sma /\ latest_close < latest_short_sma
    THEN [recommendation |-> "SELL", confidence |-> 70]
    ELSE IF latest_short_sma > latest_long_sma
    THEN [recommendation |-> "WAIT", confidence |-> 40]
    ELSE IF latest_short_sma < latest_long_sma
    THEN [recommendation |-> "WAIT", confidence |-> 40]
    ELSE [recommendation |-> "WAIT", confidence |-> 50]

\* analyze_stock on n bars that lie avg_time_diff days apart: too few bars
\* for the long window end the analysis before the timeframe is looked at.
\* With min_periods = 1 the latest values of the averages are present.
ma_crossover_analyze_stock(i) ==
    IF i.n = 0 \/ i.n < MovingAverageCrossoverRequired
    THEN [recommendation |-> "WAIT", confidence |-> 0, timeframe |-> "N/A"]
    ELSE [recommendation |->
              CrossoverSignal(i.latest_short_sma, i.latest_long_sma,
                              i.latest_close).recommendation,
          confidence |->
              CrossoverSignal(i.latest_short_sma, i.latest_long_sma,
                              i.latest_close).confidence,
          timeframe |-> Timeframe(i.avg_time_diff)]

\* the inputs of the calls: daily and weekly bars, 52 and 250 of them as in
\* the tests and the counts around the two windows
MACrossoverInputs ==
    [n : {0, 49, 50, 52, MovingAverageCrossoverRequired - 1,
          MovingAverageCrossoverRequired, MovingAverageCrossoverRequired + 50},
     avg_time_diff : {1, 7},
     latest_short_sma : {99, 100, 101},
     latest_long_sma : {100},
     latest_close : {98, 100, 102}]

MACrossoverAnalyzeStockCall ==
    /\ program = "models"
    /\ call = NoCall
    /\ \E i \in MACrossoverInputs :
          /\ call' = [fn |-> "MovingAverageCrossoverModel.analyze_stock", args |-> i]
          /\ result' = ma_crossover_analyze_stock(i)
    /\ UNCHANGED program
    /\ UNCHANGED fmVars
    /\ UNCHANGED saVars

\* ---- one call of one of the functions ----
ModelInit ==
    /\ program = "models"
    /\ pc = "fetching"
    /\ dataPoints = 0
    /\ modelIdx = 1
    /\ modelResults = EmptyMap
    /\ modelErrors = EmptyMap
    /\ skippedAnalysis = <<>>
    /\ overallStatus = "success"
    /\ overallError = None
    /\ consensus = NoConsensus
    /\ recommendations = <<>>
    /\ raisedModels = {}
    /\ symbols = 0
    /\ symIdx = 1
    /\ saPc = "loop"
    /\ saModelIdx = 1
    /\ trading_recommendations = EmptyMap
    /\ saRaised = {}
    /\ analysed = <<>>
    /\ call = NoCall
    /\ result = NoResult

ModelNext ==
    \/ MACrossoverAnalyzeStockCall
    \/ CalculateAllIndicatorsCall
    \/ TechnicalCalculateSmaCall
    \/ GetAdaptiveWindowCall
    \/ CalculateSmaCall
    \/ MAAnalyzeCall
    \/ RSIAnalyzeCall
    \/ MACDAnalyzeCall
    \/ BBAnalyzeCall
    \/ FindCrossoversCall
    \/ AnalyzeStockCall

ModelSpec == ModelInit /\ [][ModelNext]_vars

\* ---- stock_analysis: get_stock_data ----
\* One call of get_stock_data, step by step: `call` holds the call and
\* `result` the state of the function: where it stands, the fetches made so
\* far (ticker.history calls), the rows of the daily and of the weekly
\* frame (NaN: not fetched), what was returned and the note of the StockData.
MinWorkDays == 200
MinWeeks == 40
MaxWeeks == 60

FetchState(at, fetches, daily, weekly, returned, note) ==
    [pc |-> at, fetches |-> fetches, daily |-> daily, weekly |-> weekly,
     returned |-> returned, note |-> note]

\* a weekly frame with any row at all is enough
EnoughWeekly_nonempty(rows) == rows > 0

\* the weekly frame is neither empty nor shorter than 40 rows
EnoughWeekly(rows) == ~(rows = 0) /\ ~(rows < MinWeeks)

\* the dates and the ticker: the function stands before the daily fetch
GetStockDataStart ==
    /\ program = "get_stock_data"
    /\ call = NoCall
    /\ call' = [fn |-> "get_stock_data"]
    /\ result' = FetchState("daily_fetch", <<>>, NaN, NaN, "pending", None)
    /\ UNCHANGED program
    /\ UNCHANGED fmVars
    /\ UNCHANGED saVars

\* an end_date that strptime rejects: the except clause returns None
GetStockDataBadDate ==
    /\ program = "get_stock_data"
    /\ call = NoCall
    /\ call' = [fn |-> "get_stock_data"]
    /\ result' = FetchState("done", <<>>, NaN, NaN, "None", None)
    /\ UNCHANGED program
    /\ UNCHANGED fmVars
    /\ UNCHANGED saVars

\* ticker.history(start, end) returns a frame of n rows: with 200 rows the
\* StockData is returned, with fewer the weekly fetch comes next
FetchDaily ==
    /\ program = "get_stock_data"
    /\ call # NoCall
    /\ result.pc = "daily_fetch"
    /\ \E n \in 0..MaxBars :
          result' =
              IF n < MinWorkDays
              THEN FetchState("weekly_fetch", Append(result.fetches, "daily"),
                              n, NaN, "pending", None)
              ELSE FetchState("done", Append(result.fetches, "daily"),
                              n, NaN, "StockData", "Daily data fetched")
    /\ UNCHANGED <<program, call>>
    /\ UNCHANGED fmVars
    /\ UNCHANGED saVars

\* ticker.history raises: the except clause returns None
FetchDailyRaises ==
    /\ program = "get_stock_data"
    /\ call # NoCall
    /\ result.pc = "daily_fetch"
    /\ result' = FetchState("done", Append(result.fetches, "daily"),
                            NaN, NaN, "None", None)
    /\ UNCHANGED <<program, call>>
    /\ UNCHANGED fmVars
    /\ UNCHANGED saVars

\* ticker.history(start, end, interval='1wk') returns a frame of w rows
FetchWeekly ==
    /\ program = "get_stock_data"
    /\ call # NoCall
    /\ result.pc = "weekly_fetch"
    /\ \E w \in 0..MaxWeeks :
          result' =
              IF EnoughWeekly(w)
              THEN FetchState("done", Append(result.fetches, "weekly"),
                              result.daily, w, "StockData",
                              "Data fetched using weekly interval")
              ELSE FetchState("done", Append(result.fetches, "weekly"),
                              result.daily, w, "None", None)
    /\ UNCHANGED <<program, call>>
    /\ UNCHANGED fmVars
    /\ UNCHANGED saVars

FetchWeeklyRaises ==
    /\ program = "get_stock_data"
    /\ call # NoCall
    /\ result.pc = "weekly_fetch"
    /\ result' = FetchState("done", Append(result.fetches, "weekly"),
                            result.daily, NaN, "None", None)
    /\ UNCHANGED <<program, call>>
    /\ UNCHANGED fmVars
    /\ UNCHANGED saVars

FetchInit ==
    /\ program = "get_stock_data"
    /\ pc = "fetching"
    /\ dataPoints = 0
    /\ modelIdx = 1
    /\ modelResults = EmptyMap
    /\ modelErrors = EmptyMap
    /\ skippedAnalysis = <<>>
    /\ overallStatus = "success"
    /\ overallError = None
    /\ consensus = NoConsensus
    /\ recommendations = <<>>
    /\ raisedModels = {}
    /\ symbols = 0
    /\ symIdx = 1
    /\ saPc = "loop"
    /\ saModelIdx = 1
    /\ trading_recommendations = EmptyMap
    /\ saRaised = {}
    /\ analysed = <<>>
    /\ call = NoCall
    /\ result = NoResult

FetchNext ==
    \/ GetStockDataStart
    \/ GetStockDataBadDate
    \/ FetchDaily
    \/ FetchDailyRaises
    \/ FetchWeekly
    \/ FetchWeeklyRaises

FetchSpec == FetchInit /\ [][FetchNext]_vars

\* the call goes on until it returns
FetchFairSpec == FetchSpec /\ WF_vars(FetchNext)

\* the four analyze functions of FInMasterv2
AnalyzeFns ==
    {"MovingAverageCrossoverModel.analyze", "RSIMeanReversionModel.analyze",
     "MACDMomentumModel.analyze", "BollingerBandsModel.analyze"}

\* ---------------------------------------------------------------------
\* C14: each of the four signal models, given fewer bars than its minimum
\* (MA crossover: max(fast, slow); RSI: period + 1; MACD: slow + signal - 1;
\* Bollinger: period), returns without raising a result whose signal is
\* WAIT or HOLD, whose confidence is 0 and which carries a non-empty error
\* or insufficient-data text.
\* ---------------------------------------------------------------------
\* the minimum the claim states for the model of the call
StatedMinimum ==
    CASE call.fn = "MovingAverageCrossoverModel.analyze" -> 200
      [] call.fn = "RSIMeanReversionModel.analyze" -> 15
      [] call.fn = "MACDMomentumModel.analyze" -> 34
      [] call.fn = "BollingerBandsModel.analyze" -> 20
      [] call.fn = "analyze_stock" ->
            (CASE call.args.model = "MovingAverageCrossoverModel" -> 200
               [] call.args.model = "RsiMeanReversionModel" -> 15
               [] call.args.model = "MacdMomentumModel" -> 34
               [] call.args.model = "BollingerBandsModel" -> 20)

C14_TooFewBars ==
    /\ (call.fn \in AnalyzeFns /\ call.args.n < StatedMinimum) =>
          /\ result.signal \in {"WAIT", "HOLD"}
          /\ result.confidence = 0
          /\ result.error \notin {None, ""}
    /\ (call.fn = "analyze_stock" /\ call.args.n < StatedMinimum) =>
          /\ result.kind = "ok"
          /\ result.recommendation \in {"WAIT", "HOLD"}
          /\ result.confidence = 0
          /\ result.reasoning \notin {None, ""}

\* one bar short of the MACD minimum, with series the rules could score
C14_Witness ==
    /\ call.fn = "MACDMomentumModel.analyze"
    /\ call.args.n = 33
    /\ call.args.vm = 2 /\ call.args.vs = 2 /\ call.args.vh = 2
    /\ call.args.cm = 2 /\ call.args.cs = 0
    /\ result.signal = "HOLD" /\ result.confidence = 0 /\ result.error # None

\* ---------------------------------------------------------------------
\* C15: for each FInMasterv2 model, whenever the end of a required
\* indicator series misses a value the comparisons need (the current or the
\* previous value; for Bollinger Bands the current value), analyze returns
\* a degraded result with confidence 0 and an explicit error marker rather
\* than a scored recommendation.
\* ---------------------------------------------------------------------
\* the call misses a value at the end of a required series
TailMissing ==
    CASE call.fn = "MovingAverageCrossoverModel.analyze" ->
            NaN \in {call.args.cf, call.args.cs, call.args.pf, call.args.ps}
      [] call.fn = "RSIMeanReversionModel.analyze" ->
            NaN \in {Current(call.args.rsi), Previous(call.args.rsi), call.args.sma20}
      [] call.fn = "MACDMomentumModel.analyze" ->
            NaN \in {call.args.cm, call.args.cs, call.args.ch,
                     call.args.pm, call.args.ps, call.args.ph}
      [] call.fn = "BollingerBandsModel.analyze" ->
            NaN \in {call.args.upper, call.args.middle, call.args.lower}

C15_MissingTailDegrades ==
    (call.fn \in AnalyzeFns /\ TailMissing) =>
        /\ result.confidence = 0
        /\ result.error # None

\* ---------------------------------------------------------------------
\* C16: every result of analyze of the four FInMasterv2 models, scored or
\* degraded, has a confidence within [0, 100], whatever bonuses fired.
\* ---------------------------------------------------------------------
C16_ConfidenceInRange ==
    call.fn \in AnalyzeFns => (result.confidence >= 0 /\ result.confidence <= 100)

\* the MACD rules took the confidence below 0 and the result says 0
C16_Witness ==
    /\ call.fn = "MACDMomentumModel.analyze"
    /\ result.error = None
    /\ MACDAfterSignalCross(call.args).confidence < 0
    /\ result.confidence = 0

\* ---------------------------------------------------------------------
\* C17: with the current and previous fast and slow averages all available,
\* MovingAverageCrossoverModel.analyze returns BUY at base confidence 85
\* exactly on a golden cross (prev fast <= prev slow, now fast > slow), SELL
\* at base 85 exactly on a death cross, and otherwise, with fast > slow, BUY
\* if the price is above the fast average else WAIT at base 60
\* (symmetrically SELL / WAIT with fast < slow); the final confidence is the
\* base plus the separation bonus (+15 above 10%, +10 above 5%, +5 above
\* 2%, else 0), capped at 100.
\* ---------------------------------------------------------------------
\* the separation bonus the claim states for the call: the separation is
\* |fast - slow| / slow, in percent
StatedBonus ==
    LET fast == call.args.cf
        slow == call.args.cs
        gap == IF fast > slow THEN fast - slow ELSE slow - fast
    IN IF 100 * gap > 10 * slow THEN 15
       ELSE IF 100 * gap > 5 * slow THEN 10
       ELSE IF 100 * gap > 2 * slow THEN 5
       ELSE 0

\* the call returned this signal at this base confidence
Returned(sig, base) ==
    /\ result.signal = sig
    /\ result.confidence = Min2(100, base + StatedBonus)

C17_CrossoverRule ==
    (/\ call.fn = "MovingAverageCrossoverModel.analyze"
     /\ NaN \notin {call.args.cf, call.args.cs, call.args.pf, call.args.ps}
     /\ result.error = None) =>
        LET a == call.args
            golden == a.pf <= a.ps /\ a.cf > a.cs
            death == a.pf >= a.ps /\ a.cf < a.cs
        IN /\ golden <=> Returned("BUY", 85)
           /\ death <=> Returned("SELL", 85)
           /\ (~golden /\ a.cf > a.cs) =>
                 Returned(IF a.price # NaN /\ a.price > a.cf THEN "BUY" ELSE "WAIT", 60)
           /\ (~death /\ a.cf < a.cs) =>
                 Returned(IF a.price # NaN /\ a.price < a.cf THEN "SELL" ELSE "WAIT", 60)

\* a golden cross with the averages 11% apart: BUY, 85 + 15 capped at 100
C17_Witness ==
    /\ call.fn = "MovingAverageCrossoverModel.analyze"
    /\ call.args.pf = 99 /\ call.args.ps = 100
    /\ call.args.cf = 111 /\ call.args.cs = 100
    /\ result.signal = "BUY"
    /\ result.confidence = 100
    /\ result.error = None

\* ---------------------------------------------------------------------
\* C18: find_crossovers flags every sign change of (fast - slow) between
\* consecutive valid bars as a crossover event and returns at most five
\* events: the five most recent events of either type, in ascending
\* timestamp order.
\* ---------------------------------------------------------------------
\* the bars of the call at which (fast - slow) changes sign: both averages
\* are present at the bar and at the bar before it
GoldenBars ==
    {k \in 2..Len(call.args.fast) :
        /\ NaN \notin {call.args.fast[k], call.args.slow[k],
                       call.args.fast[k - 1], call.args.slow[k - 1]}
        /\ call.args.fast[k] > call.args.slow[k]
        /\ call.args.fast[k - 1] <= call.args.slow[k - 1]}
DeathBars ==
    {k \in 2..Len(call.args.fast) :
        /\ NaN \notin {call.args.fast[k], call.args.slow[k],
                       call.args.fast[k - 1], call.args.slow[k - 1]}
        /\ call.args.fast[k] < call.args.slow[k]
        /\ call.args.fast[k - 1] >= call.args.slow[k - 1]}

\* all the events of the call, oldest first
EventsInTimeOrder ==
    [j \in 1..Cardinality(GoldenBars \cup DeathBars) |->
        LET k == Ascending(GoldenBars \cup DeathBars)[j]
        IN [timestamp |-> k,
            type |-> IF k \in GoldenBars THEN "Golden Cross" ELSE "Death Cross"]]

C18_MostRecentInTimeOrder ==
    call.fn = "MovingAverageCrossoverModel.find_crossovers" =>
        result.crossovers = LastFive(EventsInTimeOrder)

\* ---------------------------------------------------------------------
\* C19: in RSIMeanReversionModel.analyze a detected divergence can promote
\* the signal: there are inputs for which the threshold rule alone yields no
\* BUY / SELL and a detected bullish (bearish) divergence makes the final
\* signal BUY (SELL); and a divergence never replaces an opposite threshold
\* signal.
\* ---------------------------------------------------------------------
\* the divergence detected on input i is bullish / bearish
BullishDetected(i) == RSIDivergence(i).type \in {"Bullish", "Potential Bullish"}
BearishDetected(i) == RSIDivergence(i).type \in {"Bearish", "Potential Bearish"}

\* on input i the threshold rule gives no BUY / SELL and the divergence
\* detected makes the final signal BUY (SELL)
Promoted(i) ==
    /\ RSIResult(i).error = None
    /\ RSIAfterThreshold(i).signal \notin {"BUY", "SELL"}
    /\ \/ BullishDetected(i) /\ RSIResult(i).signal = "BUY"
       \/ BearishDetected(i) /\ RSIResult(i).signal = "SELL"

C19_DivergencePromotes ==
    /\ \E i \in RSICallInputs : Promoted(i)
    /\ (call.fn = "RSIMeanReversionModel.analyze" /\ result.error = None) =>
          /\ (BullishDetected(call.args) /\ RSIAfterThreshold(call.args).signal = "SELL") =>
                result.signal = "SELL"
          /\ (BearishDetected(call.args) /\ RSIAfterThreshold(call.args).signal = "BUY") =>
                result.signal = "BUY"

\* ---------------------------------------------------------------------
\* C20: in MACDMomentumModel.analyze with the current MACD and signal-line
\* values available the signal is BUY when MACD is above the signal line
\* and SELL when it is below; a zero-line cross or a signal-line cross only
\* promotes a HOLD / WAIT signal to BUY / SELL and never replaces a BUY or
\* SELL already set with the opposite signal.
\* ---------------------------------------------------------------------
\* a rule that took the signal from before to after promoted a HOLD / WAIT
\* or left the signal alone
OnlyPromotes(before, after) ==
    after.signal # before.signal =>
        (before.signal \in {"HOLD", "WAIT"} /\ after.signal \in {"BUY", "SELL"})

C20_LineRuleThenPromotions ==
    (call.fn = "MACDMomentumModel.analyze" /\ result.error = None) =>
        LET a == call.args
        IN /\ (a.cm # NaN /\ a.cs # NaN /\ a.cm > a.cs) => result.signal = "BUY"
           /\ (a.cm # NaN /\ a.cs # NaN /\ a.cm < a.cs) => result.signal = "SELL"
           /\ OnlyPromotes(MACDAfterHistogram(a), MACDAfterZeroLine(a))
           /\ OnlyPromotes(MACDAfterZeroLine(a), MACDAfterSignalCross(a))
           /\ result.signal = MACDAfterSignalCross(a).signal

\* without a current signal-line value the line rule leaves HOLD, and the
\* MACD crossing above zero promotes it to BUY
C20_Witness ==
    /\ call.fn = "MACDMomentumModel.analyze"
    /\ result.error = None
    /\ call.args.cs = NaN
    /\ call.args.cm = 2 /\ call.args.pm = 0
    /\ MACDAfterHistogram(call.args).signal = "HOLD"
    /\ result.signal = "BUY"

\* ---------------------------------------------------------------------
\* C21: BollingerBandsModel.analyze returns BUY (+35) when the latest price
\* is within 2% of, or below, the lower band, SELL (+35) when it is within
\* 2% of, or above, the upper band and not within 2% of the lower band; a
\* price farther than 2% inside both bands gets neither BUY nor SELL.
\* ---------------------------------------------------------------------
\* the latest price of the call is at most 2% above the lower band / at
\* most 2% below the upper band
WithinLower == 100 * call.args.price <= 102 * call.args.lower
WithinUpper == 100 * call.args.price >= 98 * call.args.upper

C21_NearBandRule ==
    (/\ call.fn = "BollingerBandsModel.analyze"
     /\ result.error = None
     /\ NaN \notin {call.args.price, call.args.lower, call.args.upper}) =>
        /\ WithinLower => result.signal = "BUY"
        /\ (WithinUpper /\ ~WithinLower) => result.signal = "SELL"
        /\ (~WithinUpper /\ ~WithinLower) => result.signal \notin {"BUY", "SELL"}

\* C22: the Bollinger model adds the volume bonus of 15 exactly when a
\* near-band BUY or SELL was triggered and the volume of the current bar
\* exceeds 1.2 times the moving average of the volume.
VolumeBonusAdded == BBBandStep(call.args).confidence = 35 + 15
NearBandTriggered == BBBandStep(call.args).signal \in {"BUY", "SELL"}

C22_VolumeBonus ==
    (call.fn = "BollingerBandsModel.analyze" /\ result.error = None) =>
        (VolumeBonusAdded <=>
            /\ NearBandTriggered
            /\ call.args.volume # NaN
            /\ 10 * call.args.volume > 12 * call.args.mean_volume)

\* C23: the band walk is looked for in the most recent 20 bars: when they
\* hold at least 5 rows without a missing value and at least 3 of those rows
\* touch the upper band, or at least 3 touch the lower band, a band walk is
\* reported and 15 is added to the confidence.
WalkWindow == AlignedRows(BBRecentRows(call.args))
WalkRecent == LastRows(WalkWindow, 5)
Touches(rows, Touch(_)) == Cardinality({k \in DOMAIN rows : Touch(rows[k])})
WalkReported ==
    /\ result.bandWalk \in {"Upper Band Walk", "Lower Band Walk"}
    /\ result.confidence =
          Clamp(BBMiddleStep(BBSqueezeStep(BBBandStep(call.args), call.args),
                             call.args).confidence + 15)

C23_AsStated ==
    (/\ call.fn = "BollingerBandsModel.analyze"
     /\ result.error = None
     /\ Len(WalkWindow) >= 5
     /\ \/ Touches(WalkWindow, UpperTouch) >= 3
        \/ Touches(WalkWindow, LowerTouch) >= 3) => WalkReported

\* C23 as the code has it: the touches are those of the last 5 of the rows
\* without a missing value; the upper band is looked at first, and without
\* 3 touches of either band no walk is reported.
C23_LastFiveRows ==
    (/\ call.fn = "BollingerBandsModel.analyze"
     /\ result.error = None) =>
        IF Len(WalkWindow) >= 5 /\ Touches(WalkRecent, UpperTouch) >= 3
        THEN WalkReported /\ result.bandWalk = "Upper Band Walk"
        ELSE IF Len(WalkWindow) >= 5 /\ Touches(WalkRecent, LowerTouch) >= 3
        THEN WalkReported /\ result.bandWalk = "Lower Band Walk"
        ELSE /\ result.bandWalk = "None"
             /\ result.confidence =
                   Clamp(BBMiddleStep(BBSqueezeStep(BBBandStep(call.args), call.args),
                                      call.args).confidence)

\* a lower band walk in a window that also touches the upper band
C23_Witness ==
    /\ call.fn = "BollingerBandsModel.analyze"
    /\ result.error = None
    /\ result.bandWalk = "Lower Band Walk"
    /\ Touches(WalkWindow, UpperTouch) >= 3
    /\ result.confidence >= 15

\* C24: on n bars the SMA of period p has its first p - 1 values missing
\* and the others present when n >= p, and all its values missing when
\* n < p, in TechnicalIndicators.calculate_sma and in
\* IndicatorCalculator.calculate_sma alike.
SmaFns == {"TechnicalIndicators.calculate_sma", "IndicatorCalculator.calculate_sma"}

C24_SmaLeadingMissing ==
    (call.fn \in SmaFns /\ result.raised = None) =>
        /\ Len(result.values) = call.args.n
        /\ \A k \in 1..Len(result.values) :
              result.values[k].valid <=> k >= call.args.window

\* C25: _get_adaptive_window returns a window that never exceeds the data
\* length n >= 1, and warns whenever the window returned is not the one
\* requested.
C25_AdaptiveWindowFits ==
    call.fn = "IndicatorCalculator._get_adaptive_window" =>
        /\ result.window <= call.args.n
        /\ (result.window # call.args.window => result.warned)

\* C26: calculate_all_indicators raises IndicatorCalculationError exactly
\* when the bar count is below the minimum of an indicator marked required;
\* otherwise it completes with the columns of every indicator in the
\* DataFrame. Each optional indicator that lacks bars and that the loop
\* came to gets its column, entirely missing.
Indicators == {indicators_to_calculate[k] : k \in DOMAIN indicators_to_calculate}
Lacking(ind) == call.args.n < ind.min_periods
Reached(k) ==
    \A j \in 1..(k - 1) :
        ~(indicators_to_calculate[j].is_required /\ Lacking(indicators_to_calculate[j]))

C26_RaisesOnMandatoryOnly ==
    call.fn = "IndicatorCalculator.calculate_all_indicators" =>
        /\ result.raised = "IndicatorCalculationError" <=>
              \E ind \in Indicators : ind.is_required /\ Lacking(ind)
        /\ result.raised \in {None, "IndicatorCalculationError"}
        /\ result.raised = None =>
              \A ind \in Indicators :
                  \A c \in DOMAIN ind.columns : ind.columns[c] \in DOMAIN result.df
        /\ \A k \in DOMAIN indicators_to_calculate :
              LET ind == indicators_to_calculate[k]
              IN  (~ind.is_required /\ Lacking(ind) /\ Reached(k)) =>
                      /\ ind.name \in DOMAIN result.df
                      /\ result.df[ind.name] = "missing"

\* a run that completes on exactly the largest required minimum
C26_Witness ==
    /\ call.fn = "IndicatorCalculator.calculate_all_indicators"
    /\ call.args.n = SMA200MinPeriods
    /\ result.raised = None
    /\ result.df["SMA_200"] = "values"

\* a run that raises after an optional indicator without enough bars got
\* its missing column
C26_WitnessOptional ==
    /\ call.fn = "IndicatorCalculator.calculate_all_indicators"
    /\ result.raised = "IndicatorCalculationError"
    /\ "SMA_50" \in DOMAIN result.df
    /\ result.df["SMA_50"] = "missing"
    /\ result.df["SMA_20"] = "values"

\* C29: when calculate_all_indicators raises IndicatorCalculationError the
\* DataFrame of the StockData is as it was before the call.
C29_RaiseLeavesFrame ==
    (/\ call.fn = "IndicatorCalculator.calculate_all_indicators"
     /\ result.raised = "IndicatorCalculationError") => result.df = call.args.df

\* C27: get_stock_data fetches the daily frame first and the weekly frame
\* only after a daily frame of fewer than 200 rows: never more than two
\* fetches, none of them twice. Every call returns, and it returns a StockData
\* exactly when the daily frame has 200 rows or the weekly frame 40, the
\* note naming the weekly interval in the second case; otherwise, and
\* whenever a fetch raises, it returns None.
FetchOrderKept ==
    /\ result.fetches \in {<<>>, <<"daily">>, <<"daily", "weekly">>}
    /\ "weekly" \in {result.fetches[k] : k \in DOMAIN result.fetches} =>
          (result.daily # NaN /\ result.daily < 200)

ReturnRule ==
    result.pc = "done" =>
        /\ result.returned \in {"StockData", "None"}
        /\ result.returned = "StockData" <=>
              \/ (result.daily # NaN /\ result.daily >= 200)
              \/ (result.weekly # NaN /\ result.weekly >= 40)
        /\ (result.returned = "StockData" /\ result.weekly # NaN) =>
              result.note = "Data fetched using weekly interval"

C27_DailyThenWeekly ==
    /\ [](call.fn = "get_stock_data" => (FetchOrderKept /\ ReturnRule))
    /\ (call.fn = "get_stock_data") ~> (call.fn = "get_stock_data" /\ result.pc = "done")

\* a StockData of weekly data returned after a short daily frame
C27_Witness ==
    /\ call.fn = "get_stock_data"
    /\ result.pc = "done"
    /\ result.fetches = <<"daily", "weekly">>
    /\ result.daily < 200
    /\ result.weekly >= 40
    /\ result.returned = "StockData"

\* C28: on weekly bars, at least short_window = 50 of them,
\* MovingAverageCrossoverModel.analyze_stock returns a recommendation among
\* BUY, SELL and WAIT with the timeframe 'Weekly'.
C28_WeeklyTimeframe ==
    (/\ call.fn = "MovingAverageCrossoverModel.analyze_stock"
     /\ call.args.avg_time_diff > 1
     /\ call.args.n >= 50) =>
        /\ result.recommendation \in {"BUY", "SELL", "WAIT"}
        /\ result.timeframe = "Weekly"

\* C30: on a series without missing closes that the indicator engine
\* accepts, a model whose minimum bar count is met returns a scored result,
\* which the orchestrator places in modelResults: for every n >= 200 this
\* is so for MA Crossover (50/200).
\* The moving averages of n closes, none of them missing: SMA_50 and
\* SMA_200 hold a value from their 50th and 200th bar on.
SeriesComplete ==
    /\ call.args.price # NaN
    /\ call.args.cf # NaN
    /\ call.args.pf # NaN
    /\ call.args.vf = Min2(2, call.args.n - 50 + 1)
    /\ (call.args.cs # NaN <=> call.args.n >= 200)
    /\ (call.args.ps # NaN <=> call.args.n >= 200 + 1)
    /\ call.args.vs = Min2(2, Max2(0, call.args.n - 200 + 1))

PastIndicatorEngine == IndicatorsSufficient(call.args.n)

\* a result without an error goes to modelResults, one with an error to
\* modelErrors
PlacedInModelResults == result.error = None

C30_ScoredWhenBarsSuffice ==
    (/\ call.fn = "MovingAverageCrossoverModel.analyze"
     /\ PastIndicatorEngine
     /\ call.args.n >= MARequiredDataLength
     /\ SeriesComplete) => PlacedInModelResults

====
